---- MODULE Spec2Model ----
(***************************************************************************)
(* Exploration engines of clear-thought: Tree-of-Thought, Graph-of-Thought *)
(* and Beam Search handlers, modelled operation by operation.              *)
(*                                                                         *)
(* Conventions                                                             *)
(*  - uuid node/edge/path ids are the naturals 1, 2, ... in creation       *)
(*    order; a JS Map iterates in insertion order, i.e. in id order.       *)
(*  - a score (a JS double in [0, 1.2)) is an integer number of            *)
(*    thousandths: 0.8 is 800, Math.random() * 0.2 is a value in 0..199.   *)
(*  - a content string is the sequence of the pieces it was concatenated   *)
(*    from; TokenLength gives the number of characters of each piece.      *)
(*  - a handler method is an operator from the session (and its inputs)    *)
(*    to [s: the session afterwards, err: the Error thrown or "none",      *)
(*    ret: the return value]; s of a throwing call is the session as the   *)
(*    throw leaves it.                                                     *)
(***************************************************************************)
EXTENDS Integers, Sequences, FiniteSets, TLC

VARIABLES tree, treeCall, graph, graphCall, beam, beamCall, mcts, mctsCall,
          pools, sessionThoughts, toolCall

vars == <<tree, treeCall, graph, graphCall, beam, beamCall, mcts, mctsCall,
         pools, sessionThoughts, toolCall>>
treeVars == <<tree, treeCall>>
graphVars == <<graph, graphCall>>
beamVars == <<beam, beamCall>>
mctsVars == <<mcts, mctsCall>>
toolVars == <<pools, sessionThoughts, toolCall>>

Max(a, b) == IF a >= b THEN a ELSE b
Min(a, b) == IF a <= b THEN a ELSE b

\* the sum of a sequence of numbers
RECURSIVE SumSeq(_)
SumSeq(seq) == IF seq = <<>> THEN 0 ELSE Head(seq) + SumSeq(Tail(seq))

\* the keys of a Map in insertion order
RECURSIVE SortedIds(_)
SortedIds(ids) ==
    IF ids = {} THEN <<>>
    ELSE LET m == CHOOSE x \in ids : \A y \in ids : x <= y
         IN  <<m>> \o SortedIds(ids \ {m})

(***************************************************************************)
(* Bounds of the model                                                     *)
(***************************************************************************)
MaxTreeNodes == 4
MaxTreeCalls == 3
MaxTreeRuns == 8
MaxThoughts == 2
MaxGraphNodeIds == 4
MaxGraphEdgeIds == 2
MaxMergeIds == 2
MaxWideNodes == 3
MaxWideEdges == 3
MaxCentralityNodes == 3
MaxCentralityEdges == 3
MaxAnalysisNodes == 3
MaxAnalysisEdges == 3
MaxBeamPaths == 7
MaxBeamCalls == 3
MaxBeamMergeIds == 3
MaxBeamRuns == 10
MaxMctsCalls == 3
MaxMctsThoughts == 3
MaxMctsRuns == 7
MaxMctsChain == 10
MaxMctsExpands == 3
MaxMctsStopCalls == 4
MaxToolCalls == 3
MaxToolThoughts == 2

(***************************************************************************)
(* Tree-of-Thought handler                                                 *)
(***************************************************************************)
NoScore == -1

TokenLength(tok) ==
    CASE tok = "Root: Problem Statement" -> 23
      [] tok \in {" -> Branch 1", " -> Branch 2", " -> Branch 3"} -> 12
      [] tok = "essay" -> 100
      [] tok = "note" -> 4
      [] OTHER -> 0

RECURSIVE ContentLength(_)
ContentLength(content) ==
    IF content = <<>> THEN 0
    ELSE TokenLength(Head(content)) + ContentLength(Tail(content))

BranchSuffix(i) == <<" -> Branch 1", " -> Branch 2", " -> Branch 3">>[i]

Tree_defaultConfig ==
    [ maxDepth |-> 10,
      maxBranchingFactor |-> 3,
      defaultStrategy |-> "best-first",
      pruningThreshold |-> 200,
      timeLimit |-> 60000 ]

\* { ...this.defaultConfig, ...config }
Tree_mergeConfig(config) ==
    [k \in DOMAIN Tree_defaultConfig |->
        IF k \in DOMAIN config THEN config[k] ELSE Tree_defaultConfig[k]]

Tree_initializeSession(config) ==
    [ nodes |-> << [ content |-> <<"Root: Problem Statement">>,
                     parentId |-> 0,
                     childrenIds |-> <<>>,
                     depth |-> 0,
                     status |-> "active",
                     score |-> NoScore ] >>,
      rootNodeId |-> 1,
      iteration |-> 0,
      nextStepNeeded |-> TRUE,
      explorationBudget |-> 100,
      bestPathIds |-> <<>>,
      config |-> Tree_mergeConfig(config),
      stats |-> [ nodesCreated |-> 1,
                  nodesExplored |-> 0,
                  nodesPruned |-> 0,
                  solutionsFound |-> 0,
                  maxDepthReached |-> 0,
                  totalTime |-> 0 ] ]

\* the node createNode would build with a depth that is not the parent's + 1
Tree_newNode_sameDepth(content, parentId, s) ==
    [ content |-> content,
      parentId |-> parentId,
      childrenIds |-> <<>>,
      depth |-> s.nodes[parentId].depth,
      status |-> "active",
      score |-> NoScore ]

Tree_newNode(content, parentId, s) ==
    [ content |-> content,
      parentId |-> parentId,
      childrenIds |-> <<>>,
      depth |-> s.nodes[parentId].depth + 1,
      status |-> "active",
      score |-> NoScore ]

\* the checks of createNode with the branching check off by one (> for >=)
Tree_createNodeError_branchOffByOne(parentId, s) ==
    IF parentId \notin DOMAIN s.nodes THEN "Parent node not found"
    ELSE IF s.nodes[parentId].depth >= s.config.maxDepth THEN "Maximum depth reached"
    ELSE IF Len(s.nodes[parentId].childrenIds) > s.config.maxBranchingFactor
    THEN "Maximum branching factor reached"
    ELSE "none"

\* the checks of createNode with the depth check off by one (> for >=)
Tree_createNodeError_depthOffByOne(parentId, s) ==
    IF parentId \notin DOMAIN s.nodes THEN "Parent node not found"
    ELSE IF s.nodes[parentId].depth > s.config.maxDepth THEN "Maximum depth reached"
    ELSE IF Len(s.nodes[parentId].childrenIds) >= s.config.maxBranchingFactor
    THEN "Maximum branching factor reached"
    ELSE "none"

\* the Error createNode throws before it changes anything, or "none"
Tree_createNodeError(parentId, s) ==
    IF parentId \notin DOMAIN s.nodes THEN "Parent node not found"
    ELSE IF s.nodes[parentId].depth >= s.config.maxDepth THEN "Maximum depth reached"
    ELSE IF Len(s.nodes[parentId].childrenIds) >= s.config.maxBranchingFactor
    THEN "Maximum branching factor reached"
    ELSE "none"

Tree_createNode(content, parentId, s) ==
    IF Tree_createNodeError(parentId, s) # "none"
    THEN [s |-> s, err |-> Tree_createNodeError(parentId, s), ret |-> 0]
    ELSE
        LET nodeId == Len(s.nodes) + 1
            node == Tree_newNode(content, parentId, s)
        IN  [ s |-> [ s EXCEPT
                        !.nodes = Append([@ EXCEPT ![parentId].childrenIds = Append(@, nodeId)], node),
                        !.stats.nodesCreated = @ + 1,
                        !.stats.maxDepthReached = Max(@, node.depth) ],
              err |-> "none",
              ret |-> nodeId ]

\* the for loop of expand: the children created so far, and the session as
\* the loop leaves it when createNode throws
RECURSIVE Tree_expandLoop(_, _, _, _, _)
Tree_expandLoop(i, numChildren, nodeId, s, children) ==
    IF i >= numChildren
    THEN [s |-> s, err |-> "none", ret |-> children]
    ELSE LET r == Tree_createNode(s.nodes[nodeId].content \o <<BranchSuffix(i + 1)>>, nodeId, s)
         IN  IF r.err # "none"
             THEN [s |-> r.s, err |-> r.err, ret |-> children]
             ELSE Tree_expandLoop(i + 1, numChildren, nodeId, r.s, Append(children, r.ret))

\* expand that leaves the expanded node active
Tree_expand_staysActive(nodeId, s) ==
    IF nodeId \notin DOMAIN s.nodes
    THEN [s |-> s, err |-> "Node not found", ret |-> <<>>]
    ELSE IF s.nodes[nodeId].status # "active"
    THEN [s |-> s, err |-> "none", ret |-> <<>>]
    ELSE Tree_expandLoop(0, Min(3, s.config.maxBranchingFactor - Len(s.nodes[nodeId].childrenIds)),
                         nodeId, s, <<>>)

Tree_expand(nodeId, s) ==
    IF nodeId \notin DOMAIN s.nodes
    THEN [s |-> s, err |-> "Node not found", ret |-> <<>>]
    ELSE IF s.nodes[nodeId].status # "active"
    THEN [s |-> s, err |-> "none", ret |-> <<>>]
    ELSE
        LET numChildren == Min(3, s.config.maxBranchingFactor - Len(s.nodes[nodeId].childrenIds))
            r == Tree_expandLoop(0, numChildren, nodeId, s, <<>>)
        IN  IF r.err # "none"
            THEN r
            ELSE [ s |-> [ r.s EXCEPT !.nodes[nodeId].status = "explored",
                                      !.stats.nodesExplored = @ + 1 ],
                   err |-> "none",
                   ret |-> r.ret ]

\* (contentScore + randomFactor) * (1 - depthPenalty * 0.5), in thousandths
Tree_score(node, randomFactor, maxDepth) ==
    LET contentScore == Min(ContentLength(node.content) * 10, 1000)
    IN  ((contentScore + randomFactor) * (2 * maxDepth - node.depth)) \div (2 * maxDepth)

Tree_evaluate(nodeId, randomFactor, s) ==
    IF nodeId \notin DOMAIN s.nodes
    THEN [s |-> s, err |-> "Node not found", ret |-> NoScore]
    ELSE LET score == Tree_score(s.nodes[nodeId], randomFactor, s.config.maxDepth)
         IN  [ s |-> [s EXCEPT !.nodes[nodeId].score = score],
               err |-> "none",
               ret |-> score ]

RECURSIVE Tree_prune(_, _)
RECURSIVE Tree_pruneChildren(_, _)
\* node.childrenIds.forEach(childId => this.prune(childId, ...))
Tree_pruneChildren(childrenIds, s) ==
    IF childrenIds = <<>> THEN s
    ELSE Tree_pruneChildren(Tail(childrenIds), Tree_prune(Head(childrenIds), s).s)

Tree_prune(nodeId, s) ==
    IF nodeId \notin DOMAIN s.nodes
    THEN [s |-> s, err |-> "none", ret |-> 0]
    ELSE [ s |-> Tree_pruneChildren(
                    s.nodes[nodeId].childrenIds,
                    [ s EXCEPT !.nodes[nodeId].status = "pruned",
                               !.stats.nodesPruned = @ + 1 ]),
           err |-> "none",
           ret |-> 0 ]

Tree_isSolution(nodeId, randomFactor, s) ==
    IF nodeId \notin DOMAIN s.nodes
    THEN [s |-> s, err |-> "none", ret |-> FALSE]
    ELSE
        LET e == IF s.nodes[nodeId].score # NoScore
                 THEN [s |-> s, err |-> "none", ret |-> s.nodes[nodeId].score]
                 ELSE Tree_evaluate(nodeId, randomFactor, s)
        IN  IF e.ret > 800
            THEN [ s |-> [ e.s EXCEPT !.nodes[nodeId].status = "solution",
                                      !.stats.solutionsFound = @ + 1 ],
                   err |-> "none",
                   ret |-> TRUE ]
            ELSE [s |-> e.s, err |-> "none", ret |-> FALSE]

\* the active nodes, in Map (creation) order
Tree_activeNodes(s) == SelectSeq([i \in 1..Len(s.nodes) |-> i], LAMBDA i : s.nodes[i].status = "active")

\* activeNodes.forEach(node => { if (node.score === undefined) this.evaluate(node.id, session) })
RECURSIVE Tree_evaluateUnscored(_, _, _)
Tree_evaluateUnscored(ids, random, s) ==
    IF ids = <<>> THEN s
    ELSE Tree_evaluateUnscored(
            Tail(ids), random,
            IF s.nodes[Head(ids)].score = NoScore
            THEN Tree_evaluate(Head(ids), random[Head(ids)], s).s
            ELSE s)

\* activeNodes.sort(cmp)[0] with the stable Array.prototype.sort: the first
\* node, in array order, that no other node precedes under cmp
Tree_sortedFirst(ids, key(_)) ==
    LET S == {ids[i] : i \in 1..Len(ids)}
    IN  CHOOSE n \in S : \A o \in S : key(o) < key(n) \/ (key(o) = key(n) /\ o >= n)

\* a selectNext that returns the first active node under every strategy
Tree_selectNext_firstActive(s, random) ==
    IF Len(Tree_activeNodes(s)) = 0
    THEN [s |-> s, err |-> "none", ret |-> 0]
    ELSE [s |-> s, err |-> "none", ret |-> Tree_activeNodes(s)[1]]

\* random[n] is the Math.random() * 0.2 drawn if node n is evaluated
Tree_selectNext(s, random) ==
    LET activeNodes == Tree_activeNodes(s)
        strategy == s.config.defaultStrategy
    IN  IF Len(activeNodes) = 0
        THEN [s |-> s, err |-> "none", ret |-> 0]
        ELSE CASE strategy = "depth-first" ->
                    [s |-> s, err |-> "none",
                     ret |-> Tree_sortedFirst(activeNodes, LAMBDA n : s.nodes[n].depth)]
               [] strategy = "breadth-first" ->
                    [s |-> s, err |-> "none",
                     ret |-> Tree_sortedFirst(activeNodes, LAMBDA n : 0 - s.nodes[n].depth)]
               [] strategy = "best-first" ->
                    LET s2 == Tree_evaluateUnscored(activeNodes, random, s)
                    IN  [s |-> s2, err |-> "none",
                         ret |-> Tree_sortedFirst(activeNodes, LAMBDA n : s2.nodes[n].score)]
               [] OTHER ->
                    [s |-> s, err |-> "none", ret |-> activeNodes[1]]

\* children.forEach(child => { evaluate; prune if below threshold; isSolution })
RECURSIVE Tree_processChildren(_, _, _)
Tree_processChildren(children, random, s) ==
    IF children = <<>> THEN s
    ELSE
        LET child == Head(children)
            ev == Tree_evaluate(child, random[child], s)
            pr == IF s.config.pruningThreshold # 0 /\ ev.ret < s.config.pruningThreshold
                  THEN Tree_prune(child, ev.s).s
                  ELSE ev.s
            sol == Tree_isSolution(child, random[child], pr)
        IN  Tree_processChildren(Tail(children), random, sol.s)

\* elapsed is Date.now() - startTime
Tree_runIteration(s, random, elapsed) ==
    LET sel == Tree_selectNext(s, random)
    IN  IF sel.ret = 0
        THEN [s |-> [sel.s EXCEPT !.nextStepNeeded = FALSE], err |-> "none", ret |-> 0]
        ELSE
            LET ex == Tree_expand(sel.ret, sel.s)
            IN  IF ex.err # "none"
                THEN [s |-> ex.s, err |-> ex.err, ret |-> sel.ret]
                ELSE
                    LET s3 == Tree_processChildren(ex.ret, random, ex.s)
                        s4 == [ s3 EXCEPT !.iteration = @ + 1,
                                          !.stats.totalTime = @ + elapsed ]
                        stop == \/ s4.stats.solutionsFound > 0
                                \/ s4.stats.nodesExplored >= s4.explorationBudget
                                \/ (s4.config.timeLimit # 0 /\ s4.stats.totalTime > s4.config.timeLimit)
                    IN  [ s |-> IF stop THEN [s4 EXCEPT !.nextStepNeeded = FALSE] ELSE s4,
                          err |-> "none",
                          ret |-> sel.ret ]

\* the ids from the root down to nodeId; currentId 0 is undefined
RECURSIVE Tree_getPath(_, _)
Tree_getPath(currentId, s) ==
    IF currentId = 0 THEN <<>>
    ELSE IF currentId \notin DOMAIN s.nodes THEN <<currentId>>
    ELSE Tree_getPath(s.nodes[currentId].parentId, s) \o <<currentId>>

\* a path score that counts the last node only
Tree_pathScore_leafOnly(pathIds, s) ==
    IF s.nodes[pathIds[Len(pathIds)]].score = NoScore THEN 0
    ELSE s.nodes[pathIds[Len(pathIds)]].score

\* pathIds.reduce of getBestPath: an absent score counts 0
Tree_pathScore(pathIds, s) ==
    SumSeq([k \in 1..Len(pathIds) |->
               IF s.nodes[pathIds[k]].score = NoScore THEN 0 ELSE s.nodes[pathIds[k]].score])

\* session.nodes.forEach of getBestPath, from node id on: bestNodeId 0 is
\* null, and bestScore is then -Infinity
RECURSIVE Tree_bestLeafLoop(_, _, _, _)
Tree_bestLeafLoop(id, bestNodeId, bestScore, s) ==
    IF id > Len(s.nodes) THEN bestNodeId
    ELSE IF /\ Len(s.nodes[id].childrenIds) = 0
            /\ s.nodes[id].status # "pruned"
            /\ (bestNodeId = 0 \/ Tree_pathScore(Tree_getPath(id, s), s) > bestScore)
    THEN Tree_bestLeafLoop(id + 1, id, Tree_pathScore(Tree_getPath(id, s), s), s)
    ELSE Tree_bestLeafLoop(id + 1, bestNodeId, bestScore, s)

\* ret is the path; a path found is kept in session.bestPathIds
Tree_getBestPath(s) ==
    LET bestNodeId == Tree_bestLeafLoop(1, 0, 0, s)
    IN  IF bestNodeId # 0
        THEN [ s |-> [s EXCEPT !.bestPathIds = Tree_getPath(bestNodeId, s)],
               err |-> "none",
               ret |-> Tree_getPath(bestNodeId, s) ]
        ELSE [s |-> s, err |-> "none", ret |-> <<>>]

\* ret is the thought texts of the records exported, in order; bestPathIds
\* <<>> is undefined
Tree_exportToSequentialFormat(s) ==
    LET r == IF s.bestPathIds # <<>>
             THEN [s |-> s, err |-> "none", ret |-> s.bestPathIds]
             ELSE Tree_getBestPath(s)
    IN  [ s |-> r.s,
          err |-> "none",
          ret |-> [index \in 1..Len(r.ret) |-> s.nodes[r.ret[index]].content] ]

\* the path exportToSequentialFormat serializes: session.bestPathIds when it
\* is set, the path getBestPath finds otherwise
Tree_exportedPath(s) ==
    IF s.bestPathIds # <<>> THEN s.bestPathIds ELSE Tree_getBestPath(s).ret

\* bestPath.forEach of exportToSequentialFormat: the records pushed for a path
\* whose nodes are all in the session
Tree_exportRecords(bestPath, s) ==
    [ index \in 1..Len(bestPath) |->
        [ thought |-> s.nodes[bestPath[index]].content,
          thoughtNumber |-> index,
          totalThoughts |-> Len(bestPath),
          nextThoughtNeeded |-> index < Len(bestPath) ] ]

\* thoughts.forEach(thought => { node = createNode(thought.thought, parentId, session); parentId = node.id })
RECURSIVE Tree_importLoop(_, _, _)
Tree_importLoop(thoughts, parentId, s) ==
    IF thoughts = <<>> THEN [s |-> s, err |-> "none", ret |-> 0]
    ELSE LET r == Tree_createNode(<<Head(thoughts)>>, parentId, s)
         IN  IF r.err # "none" THEN r
             ELSE Tree_importLoop(Tail(thoughts), r.ret, r.s)

\* a thought record is modelled by its text; the numbering fields are not read
Tree_importFromSequentialFormat(thoughts) ==
    LET session == Tree_initializeSession(<<>>)
    IN  Tree_importLoop(thoughts, session.rootNodeId, session)

(***************************************************************************)
(* Graph-of-Thought handler                                                *)
(* session.nodes and session.edges are functions from the ids present to  *)
(* the node and edge objects; lastNodeId and lastEdgeId are the number of  *)
(* uuids drawn so far. The float statistics averageDegree and density and  *)
(* the per-type counters are not modelled.                                 *)
(***************************************************************************)
Graph_defaultConfig ==
    [ maxNodes |-> 100,
      maxEdges |-> 300,
      allowCycles |-> TRUE,
      edgeWeightThreshold |-> 100,
      autoPruneWeakEdges |-> FALSE ]

\* { ...this.defaultConfig, ...config }
Graph_mergeConfig(config) ==
    [k \in DOMAIN Graph_defaultConfig |->
        IF k \in DOMAIN config THEN config[k] ELSE Graph_defaultConfig[k]]

Graph_initializeSession(config) ==
    [ nodes |-> <<>>,
      edges |-> <<>>,
      entryNodeIds |-> <<>>,
      iteration |-> 0,
      nextStepNeeded |-> TRUE,
      config |-> Graph_mergeConfig(config),
      stats |-> [totalNodes |-> 0, totalEdges |-> 0],
      analysisMetrics |-> <<>>,
      lastNodeId |-> 0,
      lastEdgeId |-> 0 ]

\* Map.delete(key)
MapDelete(map, key) == [k \in (DOMAIN map) \ {key} |-> map[k]]

\* index = list.indexOf(x); if (index !== -1) list.splice(index, 1)
RECURSIVE SpliceFirst(_, _)
SpliceFirst(list, x) ==
    IF list = <<>> THEN <<>>
    ELSE IF Head(list) = x THEN Tail(list)
    ELSE <<Head(list)>> \o SpliceFirst(Tail(list), x)

Graph_addNode(nodeData, s) ==
    IF s.config.maxNodes # 0 /\ Cardinality(DOMAIN s.nodes) >= s.config.maxNodes
    THEN [s |-> s, err |-> "Maximum nodes limit reached", ret |-> 0]
    ELSE
        LET nodeId == s.lastNodeId + 1
            node == [ content |-> nodeData.content,
                      nodeType |-> nodeData.nodeType,
                      strength |-> nodeData.strength,
                      incomingEdges |-> <<>>,
                      outgoingEdges |-> <<>> ]
        IN  [ s |-> [ s EXCEPT
                        !.nodes = (nodeId :> node) @@ @,
                        !.lastNodeId = nodeId,
                        !.stats.totalNodes = @ + 1,
                        !.entryNodeIds = IF Len(@) = 0 THEN <<nodeId>> ELSE @ ],
              err |-> "none",
              ret |-> nodeId ]

\* canReach of wouldCreateCycle: [found, visited], visited being the set the
\* closure shares between its calls
RECURSIVE Graph_canReach(_, _, _, _)
RECURSIVE Graph_canReachEdges(_, _, _, _)
Graph_canReachEdges(edgeIds, toId, visited, s) ==
    IF edgeIds = <<>> THEN [found |-> FALSE, visited |-> visited]
    ELSE IF Head(edgeIds) \notin DOMAIN s.edges
    THEN Graph_canReachEdges(Tail(edgeIds), toId, visited, s)
    ELSE LET r == Graph_canReach(s.edges[Head(edgeIds)].targetId, toId, visited, s)
         IN  IF r.found THEN r
             ELSE Graph_canReachEdges(Tail(edgeIds), toId, r.visited, s)

Graph_canReach(fromId, toId, visited, s) ==
    IF fromId = toId THEN [found |-> TRUE, visited |-> visited]
    ELSE IF fromId \in visited THEN [found |-> FALSE, visited |-> visited]
    ELSE IF fromId \notin DOMAIN s.nodes
    THEN [found |-> FALSE, visited |-> visited \cup {fromId}]
    ELSE Graph_canReachEdges(s.nodes[fromId].outgoingEdges, toId, visited \cup {fromId}, s)

\* the cycle check with the two ends swapped: can sourceId reach targetId
Graph_wouldCreateCycle_swapped(sourceId, targetId, s) ==
    Graph_canReach(sourceId, targetId, {}, s).found

Graph_wouldCreateCycle(sourceId, targetId, s) ==
    Graph_canReach(targetId, sourceId, {}, s).found

\* removeEdge that forgets the target node's incoming list
Graph_removeEdge_keepsIncoming(edgeId, s) ==
    IF edgeId \notin DOMAIN s.edges THEN s
    ELSE
        LET edge == s.edges[edgeId]
            s1 == IF edge.sourceId \in DOMAIN s.nodes
                  THEN [s EXCEPT !.nodes[edge.sourceId].outgoingEdges = SpliceFirst(@, edgeId)]
                  ELSE s
        IN  [s1 EXCEPT !.edges = MapDelete(@, edgeId), !.stats.totalEdges = @ - 1]

Graph_removeEdge(edgeId, s) ==
    IF edgeId \notin DOMAIN s.edges THEN s
    ELSE
        LET edge == s.edges[edgeId]
            s1 == IF edge.sourceId \in DOMAIN s.nodes
                  THEN [s EXCEPT !.nodes[edge.sourceId].outgoingEdges = SpliceFirst(@, edgeId)]
                  ELSE s
            s2 == IF edge.targetId \in DOMAIN s1.nodes
                  THEN [s1 EXCEPT !.nodes[edge.targetId].incomingEdges = SpliceFirst(@, edgeId)]
                  ELSE s1
        IN  [s2 EXCEPT !.edges = MapDelete(@, edgeId), !.stats.totalEdges = @ - 1]

RECURSIVE Graph_removeEdges(_, _)
Graph_removeEdges(edgeIds, s) ==
    IF edgeIds = <<>> THEN s
    ELSE Graph_removeEdges(Tail(edgeIds), Graph_removeEdge(Head(edgeIds), s))

Graph_removeNode(nodeId, s) ==
    IF nodeId \notin DOMAIN s.nodes THEN s
    ELSE
        LET node == s.nodes[nodeId]
            s1 == Graph_removeEdges(node.incomingEdges \o node.outgoingEdges, s)
        IN  [ s1 EXCEPT !.nodes = MapDelete(@, nodeId),
                        !.stats.totalNodes = @ - 1,
                        !.entryNodeIds = SpliceFirst(@, nodeId) ]

\* the checks of connectNodes with the allowCycles test inverted
Graph_connectNodesError_flagInverted(sourceId, targetId, s) ==
    IF sourceId \notin DOMAIN s.nodes \/ targetId \notin DOMAIN s.nodes
    THEN "Source or target node not found"
    ELSE IF s.config.maxEdges # 0 /\ Cardinality(DOMAIN s.edges) >= s.config.maxEdges
    THEN "Maximum edges limit reached"
    ELSE IF s.config.allowCycles /\ Graph_wouldCreateCycle(sourceId, targetId, s)
    THEN "Edge would create a cycle, which is not allowed"
    ELSE "none"

\* the Error connectNodes throws before it changes anything, or "none"
Graph_connectNodesError(sourceId, targetId, s) ==
    IF sourceId \notin DOMAIN s.nodes \/ targetId \notin DOMAIN s.nodes
    THEN "Source or target node not found"
    ELSE IF s.config.maxEdges # 0 /\ Cardinality(DOMAIN s.edges) >= s.config.maxEdges
    THEN "Maximum edges limit reached"
    ELSE IF ~s.config.allowCycles /\ Graph_wouldCreateCycle(sourceId, targetId, s)
    THEN "Edge would create a cycle, which is not allowed"
    ELSE "none"

Graph_connectNodes(sourceId, targetId, edgeType, weight, s) ==
    IF Graph_connectNodesError(sourceId, targetId, s) # "none"
    THEN [s |-> s, err |-> Graph_connectNodesError(sourceId, targetId, s), ret |-> 0]
    ELSE
        LET edgeId == s.lastEdgeId + 1
            edge == [ sourceId |-> sourceId, targetId |-> targetId,
                      edgeType |-> edgeType, weight |-> weight ]
            s1 == [ s EXCEPT !.edges = (edgeId :> edge) @@ @, !.lastEdgeId = edgeId ]
            s2 == [ s1 EXCEPT !.nodes[sourceId].outgoingEdges = Append(@, edgeId) ]
            s3 == [ s2 EXCEPT !.nodes[targetId].incomingEdges = Append(@, edgeId),
                              !.stats.totalEdges = @ + 1 ]
        IN  IF /\ s.config.autoPruneWeakEdges
               /\ s.config.edgeWeightThreshold # 0
               /\ weight < s.config.edgeWeightThreshold
            THEN [ s |-> Graph_removeEdge(edgeId, s3),
                   err |-> "Edge weight below threshold",
                   ret |-> 0 ]
            ELSE [s |-> s3, err |-> "none", ret |-> edgeId]

\* node.incomingEdges.forEach(edgeId => connectNodes(edge.sourceId, mergedNode.id, ...)):
\* forEach visits the elements the list had when it started
RECURSIVE Graph_redirectIncoming(_, _, _)
Graph_redirectIncoming(edgeIds, mergedId, s) ==
    IF edgeIds = <<>> THEN [s |-> s, err |-> "none", ret |-> 0]
    ELSE IF Head(edgeIds) \in DOMAIN s.edges /\ s.edges[Head(edgeIds)].sourceId # mergedId
    THEN LET edge == s.edges[Head(edgeIds)]
             r == Graph_connectNodes(edge.sourceId, mergedId, edge.edgeType, edge.weight, s)
         IN  IF r.err # "none" THEN r
             ELSE Graph_redirectIncoming(Tail(edgeIds), mergedId, r.s)
    ELSE Graph_redirectIncoming(Tail(edgeIds), mergedId, s)

RECURSIVE Graph_redirectOutgoing(_, _, _)
\* a merge that re-creates no outgoing edge
Graph_redirectOutgoing_none(edgeIds, mergedId, s) == [s |-> s, err |-> "none", ret |-> 0]

Graph_redirectOutgoing(edgeIds, mergedId, s) ==
    IF edgeIds = <<>> THEN [s |-> s, err |-> "none", ret |-> 0]
    ELSE IF Head(edgeIds) \in DOMAIN s.edges /\ s.edges[Head(edgeIds)].targetId # mergedId
    THEN LET edge == s.edges[Head(edgeIds)]
             r == Graph_connectNodes(mergedId, edge.targetId, edge.edgeType, edge.weight, s)
         IN  IF r.err # "none" THEN r
             ELSE Graph_redirectOutgoing(Tail(edgeIds), mergedId, r.s)
    ELSE Graph_redirectOutgoing(Tail(edgeIds), mergedId, s)

\* nodeIds.forEach(nodeId => { redirect incoming; redirect outgoing; removeNode })
RECURSIVE Graph_mergeLoop(_, _, _)
Graph_mergeLoop(nodeIds, mergedId, s) ==
    IF nodeIds = <<>> THEN [s |-> s, err |-> "none", ret |-> mergedId]
    ELSE IF Head(nodeIds) \notin DOMAIN s.nodes
    THEN Graph_mergeLoop(Tail(nodeIds), mergedId, s)
    ELSE
        LET nodeId == Head(nodeIds)
            rin == Graph_redirectIncoming(s.nodes[nodeId].incomingEdges, mergedId, s)
        IN  IF rin.err # "none" THEN rin
            ELSE LET rout == Graph_redirectOutgoing(rin.s.nodes[nodeId].outgoingEdges, mergedId, rin.s)
                 IN  IF rout.err # "none" THEN rout
                     ELSE Graph_mergeLoop(Tail(nodeIds), mergedId, Graph_removeNode(nodeId, rout.s))

RECURSIVE Graph_joinContents(_, _)
Graph_joinContents(nodeIds, s) ==
    IF Len(nodeIds) = 1 THEN s.nodes[Head(nodeIds)].content
    ELSE s.nodes[Head(nodeIds)].content \o <<" | ">> \o Graph_joinContents(Tail(nodeIds), s)

RECURSIVE Graph_sumStrength(_, _)
Graph_sumStrength(nodeIds, s) ==
    IF nodeIds = <<>> THEN 0
    ELSE s.nodes[Head(nodeIds)].strength + Graph_sumStrength(Tail(nodeIds), s)

Graph_mergeNodes(nodeIds, s) ==
    IF Len(nodeIds) < 2
    THEN [s |-> s, err |-> "Need at least 2 nodes to merge", ret |-> 0]
    ELSE IF \E i \in 1..Len(nodeIds) : nodeIds[i] \notin DOMAIN s.nodes
    THEN [s |-> s, err |-> "Some nodes not found", ret |-> 0]
    ELSE
        LET added == Graph_addNode(
                        [ content |-> <<"Merged: ">> \o Graph_joinContents(nodeIds, s),
                          nodeType |-> s.nodes[nodeIds[1]].nodeType,
                          strength |-> Graph_sumStrength(nodeIds, s) \div Len(nodeIds) ],
                        s)
        IN  IF added.err # "none" THEN added
            ELSE Graph_mergeLoop(nodeIds, added.ret, added.s)

\* calculateCentrality: ranks are whole millionths, damping and weights
\* thousandths; quotients are rounded down
RankScale == 1000000
Damping == 850
CentralityIterations == 100

\* damping * edge.weight * sourceRank / outDegree for one incoming edge, 0
\* when the edge or its source node is absent; (outgoingEdges.length || 1)
Graph_contribution(edgeId, centrality, s) ==
    IF edgeId \notin DOMAIN s.edges THEN 0
    ELSE IF s.edges[edgeId].sourceId \notin DOMAIN s.nodes THEN 0
    ELSE (((Damping * centrality[s.edges[edgeId].sourceId]) \div 1000) * s.edges[edgeId].weight)
            \div (1000 * Max(1, Len(s.nodes[s.edges[edgeId].sourceId].outgoingEdges)))

\* one pass of the power iteration: newCentrality from centrality
Graph_newCentrality(centrality, s) ==
    [ nodeId \in DOMAIN s.nodes |->
        (((1000 - Damping) * (RankScale \div 1000)) \div Cardinality(DOMAIN s.nodes))
        + SumSeq([k \in 1..Len(s.nodes[nodeId].incomingEdges) |->
                    Graph_contribution(s.nodes[nodeId].incomingEdges[k], centrality, s)]) ]

\* for (let i = 0; i < iterations; i++): a pass that changes no value leaves
\* every later pass nothing to change
RECURSIVE Graph_powerIteration(_, _, _)
Graph_powerIteration(i, centrality, s) ==
    IF i >= CentralityIterations THEN centrality
    ELSE IF Graph_newCentrality(centrality, s) = centrality THEN centrality
    ELSE Graph_powerIteration(i + 1, Graph_newCentrality(centrality, s), s)

\* ret is the centrality map, which is also kept in session.analysisMetrics
Graph_calculateCentrality(s) ==
    LET centrality == Graph_powerIteration(
                          0, [nodeId \in DOMAIN s.nodes |-> RankScale \div Cardinality(DOMAIN s.nodes)], s)
    IN  [ s |-> [s EXCEPT !.analysisMetrics = [centrality |-> centrality]],
          err |-> "none",
          ret |-> centrality ]

\* path.indexOf(x): 0 stands for -1
RECURSIVE IndexOf(_, _)
IndexOf(list, x) ==
    IF list = <<>> THEN 0
    ELSE IF Head(list) = x THEN 1
    ELSE IF IndexOf(Tail(list), x) = 0 THEN 0 ELSE 1 + IndexOf(Tail(list), x)

\* dfs of findCycles: acc holds the sets visited and recursionStack and the
\* list cycles that the closure shares between its calls
RECURSIVE Graph_cycleDfs(_, _, _, _)
RECURSIVE Graph_cycleEdges(_, _, _, _)
Graph_cycleEdges(edgeIds, path, acc, s) ==
    IF edgeIds = <<>> THEN acc
    ELSE IF Head(edgeIds) \notin DOMAIN s.edges THEN Graph_cycleEdges(Tail(edgeIds), path, acc, s)
    ELSE
        LET targetId == s.edges[Head(edgeIds)].targetId
            cycleStart == IndexOf(path, targetId)
        IN  IF targetId \in acc.recursionStack
            THEN Graph_cycleEdges(Tail(edgeIds), path,
                    IF cycleStart # 0
                    THEN [acc EXCEPT !.cycles = Append(@, SubSeq(path, cycleStart, Len(path))
                                                          \o <<targetId>>)]
                    ELSE acc, s)
            ELSE IF targetId \notin acc.visited
            THEN Graph_cycleEdges(Tail(edgeIds), path,
                                  Graph_cycleDfs(targetId, Append(path, targetId), acc, s), s)
            ELSE Graph_cycleEdges(Tail(edgeIds), path, acc, s)

Graph_cycleDfs(nodeId, path, acc, s) ==
    LET entered == [acc EXCEPT !.visited = @ \cup {nodeId},
                               !.recursionStack = @ \cup {nodeId}]
        done == IF nodeId \in DOMAIN s.nodes
                THEN Graph_cycleEdges(s.nodes[nodeId].outgoingEdges, path, entered, s)
                ELSE entered
    IN  [done EXCEPT !.recursionStack = @ \ {nodeId}]

\* session.nodes.forEach of findCycles
RECURSIVE Graph_cycleRoots(_, _, _)
Graph_cycleRoots(nodeIds, acc, s) ==
    IF nodeIds = <<>> THEN acc
    ELSE IF Head(nodeIds) \notin acc.visited
    THEN Graph_cycleRoots(Tail(nodeIds), Graph_cycleDfs(Head(nodeIds), <<Head(nodeIds)>>, acc, s), s)
    ELSE Graph_cycleRoots(Tail(nodeIds), acc, s)

Graph_findCycles(s) ==
    Graph_cycleRoots(SortedIds(DOMAIN s.nodes),
                     [visited |-> {}, recursionStack |-> {}, cycles |-> <<>>], s).cycles

\* the entries of findContradictions; of the description its kind is modelled
Graph_contradictsEntries(s) ==
    LET typed == SelectSeq(SortedIds(DOMAIN s.edges),
                           LAMBDA id : s.edges[id].edgeType = "contradicts")
    IN  [k \in 1..Len(typed) |->
            [ nodeIds |-> <<s.edges[typed[k]].sourceId, s.edges[typed[k]].targetId>>,
              description |-> "contradicts" ]]

Graph_findContradictions(s) ==
    LET long == SelectSeq(Graph_findCycles(s), LAMBDA cycle : Len(cycle) > 2)
    IN  Graph_contradictsEntries(s)
        \o [k \in 1..Len(long) |-> [nodeIds |-> long[k], description |-> "circular reasoning"]]

\* dfs of findPaths: acc holds the set visited and the list paths that the
\* closure shares between its calls
RECURSIVE Graph_pathDfs(_, _, _, _, _, _)
RECURSIVE Graph_pathEdges(_, _, _, _, _, _)
Graph_pathEdges(edgeIds, path, endId, maxPaths, acc, s) ==
    IF edgeIds = <<>> THEN acc
    ELSE IF Head(edgeIds) \in DOMAIN s.edges
            /\ s.edges[Head(edgeIds)].targetId \notin acc.visited
    THEN Graph_pathEdges(Tail(edgeIds), path, endId, maxPaths,
                         Graph_pathDfs(s.edges[Head(edgeIds)].targetId,
                                       Append(path, s.edges[Head(edgeIds)].targetId),
                                       endId, maxPaths, acc, s), s)
    ELSE Graph_pathEdges(Tail(edgeIds), path, endId, maxPaths, acc, s)

\* dfs that stops once more than maxPaths paths are held
Graph_pathDfs_capExceeded(currentId, path, endId, maxPaths, acc, s) ==
    IF Len(acc.paths) > maxPaths THEN acc
    ELSE IF currentId = endId THEN [acc EXCEPT !.paths = Append(@, path)]
    ELSE
        LET entered == [acc EXCEPT !.visited = @ \cup {currentId}]
            done == IF currentId \in DOMAIN s.nodes
                    THEN Graph_pathEdges(s.nodes[currentId].outgoingEdges, path, endId,
                                         maxPaths, entered, s)
                    ELSE entered
        IN  [done EXCEPT !.visited = @ \ {currentId}]

Graph_pathDfs(currentId, path, endId, maxPaths, acc, s) ==
    IF Len(acc.paths) >= maxPaths THEN acc
    ELSE IF currentId = endId THEN [acc EXCEPT !.paths = Append(@, path)]
    ELSE
        LET entered == [acc EXCEPT !.visited = @ \cup {currentId}]
            done == IF currentId \in DOMAIN s.nodes
                    THEN Graph_pathEdges(s.nodes[currentId].outgoingEdges, path, endId,
                                         maxPaths, entered, s)
                    ELSE entered
        IN  [done EXCEPT !.visited = @ \ {currentId}]

Graph_findPaths(startId, endId, s, maxPaths) ==
    [ s |-> s,
      err |-> "none",
      ret |-> Graph_pathDfs(startId, <<startId>>, endId, maxPaths,
                            [visited |-> {}, paths |-> <<>>], s).paths ]

\* visit of exportToSequentialFormat: acc holds the set visited and the list
\* sortedNodes that the closure shares between its calls
RECURSIVE Graph_visit(_, _, _)
RECURSIVE Graph_visitSources(_, _, _)
Graph_visitSources(edgeIds, acc, s) ==
    IF edgeIds = <<>> THEN acc
    ELSE IF Head(edgeIds) \notin DOMAIN s.edges THEN Graph_visitSources(Tail(edgeIds), acc, s)
    ELSE Graph_visitSources(Tail(edgeIds),
                            Graph_visit(s.edges[Head(edgeIds)].sourceId, acc, s), s)

\* visit with the node pushed before its dependencies are visited
Graph_visit_pushFirst(nodeId, acc, s) ==
    IF nodeId \in acc.visited THEN acc
    ELSE IF nodeId \notin DOMAIN s.nodes
    THEN [acc EXCEPT !.visited = @ \cup {nodeId}]
    ELSE Graph_visitSources(s.nodes[nodeId].incomingEdges,
                            [acc EXCEPT !.visited = @ \cup {nodeId},
                                        !.sortedNodes = Append(@, nodeId)], s)

Graph_visit(nodeId, acc, s) ==
    IF nodeId \in acc.visited THEN acc
    ELSE IF nodeId \notin DOMAIN s.nodes
    THEN [acc EXCEPT !.visited = @ \cup {nodeId}]
    ELSE [Graph_visitSources(s.nodes[nodeId].incomingEdges,
                             [acc EXCEPT !.visited = @ \cup {nodeId}], s)
            EXCEPT !.sortedNodes = Append(@, nodeId)]

\* nodeIds.forEach(visit)
RECURSIVE Graph_visitEach(_, _, _)
Graph_visitEach(nodeIds, acc, s) ==
    IF nodeIds = <<>> THEN acc
    ELSE Graph_visitEach(Tail(nodeIds), Graph_visit(Head(nodeIds), acc, s), s)

\* sortedNodes of exportToSequentialFormat, as node ids: the entry nodes are
\* visited first, then every node in insertion order
Graph_sortedNodes(s) ==
    Graph_visitEach(SortedIds(DOMAIN s.nodes),
                    Graph_visitEach(s.entryNodeIds, [visited |-> {}, sortedNodes |-> <<>>], s),
                    s).sortedNodes

\* the thought texts of the records exported, in order
Graph_exportToSequentialFormat(s) ==
    LET sortedNodes == Graph_sortedNodes(s)
    IN  [index \in 1..Len(sortedNodes) |->
            <<"[", s.nodes[sortedNodes[index]].nodeType, "] ">> \o s.nodes[sortedNodes[index]].content]

\* thoughts.forEach of importFromSequentialFormat from thought index on;
\* prevNodeId is nodeMap.get(index - 1), 0 before the first thought
RECURSIVE Graph_importLoop(_, _, _, _)
Graph_importLoop(thoughts, index, prevNodeId, s) ==
    IF index > Len(thoughts) THEN [s |-> s, err |-> "none", ret |-> 0]
    ELSE LET added == Graph_addNode([content |-> <<thoughts[index]>>, nodeType |-> "hypothesis",
                                     strength |-> 500], s)
         IN  IF added.err # "none" THEN added
             ELSE IF prevNodeId = 0 THEN Graph_importLoop(thoughts, index + 1, added.ret, added.s)
             ELSE LET r == Graph_connectNodes(prevNodeId, added.ret, "leads-to", 800, added.s)
                  IN  IF r.err # "none" THEN r
                      ELSE Graph_importLoop(thoughts, index + 1, added.ret, r.s)

\* a thought record is modelled by its text
Graph_importFromSequentialFormat(thoughts) ==
    Graph_importLoop(thoughts, 1, 0, Graph_initializeSession(<<>>))

(***************************************************************************)
(* Beam Search handler                                                     *)
(* session.paths is a function from the path ids present to the path       *)
(* objects, lastPathId the number of path uuids drawn so far; session.nodes *)
(* is the sequence of the node objects in creation order (the handler      *)
(* never deletes a node).  Of a path's metadata the score history and      *)
(* mergedIntoPathId (0: not set) are modelled, the timestamps and the      *)
(* pruning reason are not.  Quotients of scores are rounded down to the    *)
(* thousandth.                                                             *)
(***************************************************************************)
RECURSIVE MaxSeq(_)
MaxSeq(seq) == IF Len(seq) = 1 THEN seq[1] ELSE Max(seq[1], MaxSeq(Tail(seq)))

Range(seq) == {seq[i] : i \in 1..Len(seq)}

RECURSIVE Pow(_, _)
Pow(b, e) == IF e = 0 THEN 1 ELSE b * Pow(b, e - 1)

Beam_defaultConfig ==
    [ expansionStrategy |-> "breadth",
      branchingFactor |-> 3,
      scoreAggregation |-> "average",
      allowMerging |-> TRUE,
      mergeThreshold |-> 800,
      pruningStrategy |-> "relative",
      keepPrunedPaths |-> TRUE,
      diversityBonus |-> 100 ]

Beam_defaultConvergenceCriteria ==
    [ maxGenerations |-> 10,
      minScoreImprovement |-> 10,
      consensusThreshold |-> 700,
      targetScore |-> 900,
      timeLimit |-> 60000 ]

\* { ...this.defaultConfig, ...config }
Beam_mergeConfig(config) ==
    [k \in DOMAIN Beam_defaultConfig |->
        IF k \in DOMAIN config THEN config[k] ELSE Beam_defaultConfig[k]]

Beam_initializeSession(beamWidth, config) ==
    [ iteration |-> 0,
      nextStepNeeded |-> TRUE,
      beamWidth |-> beamWidth,
      currentGeneration |-> 0,
      nodes |-> <<>>,
      paths |-> (1 :> [ nodeIds |-> <<>>,
                        currentScore |-> 0,
                        status |-> "active",
                        scoreHistory |-> <<0>>,
                        mergedIntoPathId |-> 0 ]),
      lastPathId |-> 1,
      activePaths |-> <<1>>,
      convergenceCriteria |-> Beam_defaultConvergenceCriteria,
      config |-> Beam_mergeConfig(config),
      stats |-> [ totalPaths |-> 1,
                  activePaths |-> 1,
                  completedPaths |-> 0,
                  prunedPaths |-> 0,
                  mergedPaths |-> 0,
                  nodesExplored |-> 0,
                  averagePathLength |-> 0,
                  bestScore |-> 0,
                  bestScoreGeneration |-> 0,
                  scoreVariance |-> NoScore ] ]

\* the for loop of expandPath from branch i on; the node created as the
\* k-th of this generation has the local score localScores[k]
RECURSIVE Beam_expandLoop(_, _, _, _, _)
Beam_expandLoop(i, pathId, s, localScores, base) ==
    IF i >= s.config.branchingFactor THEN s
    ELSE
        LET path == s.paths[pathId]
            nodeId == Len(s.nodes) + 1
            newPathId == s.lastPathId + 1
            node == [ content |-> [text |-> "Generation, Branch",
                                   generation |-> s.currentGeneration, branch |-> i + 1],
                      pathIds |-> <<newPathId>>,
                      generationNumber |-> s.currentGeneration,
                      localScore |-> localScores[nodeId - base],
                      cumulativeScore |-> path.currentScore ]
            newPath == [ nodeIds |-> Append(path.nodeIds, nodeId),
                         currentScore |-> 0,
                         status |-> "active",
                         scoreHistory |-> Append(path.scoreHistory, 0),
                         mergedIntoPathId |-> 0 ]
        IN  Beam_expandLoop(i + 1, pathId,
                [s EXCEPT !.nodes = Append(@, node),
                          !.paths = (newPathId :> newPath) @@ @,
                          !.lastPathId = newPathId],
                localScores, base)

\* an expandPath that leaves the expanded path active
Beam_expandPath_staysActive(pathId, s, localScores, base) ==
    IF pathId \notin DOMAIN s.paths THEN s
    ELSE
        LET s1 == Beam_expandLoop(0, pathId, s, localScores, base)
            newPaths == [k \in 1..(s1.lastPathId - s.lastPathId) |-> s.lastPathId + k]
        IN  [s1 EXCEPT !.activePaths = @ \o newPaths,
                       !.stats.totalPaths = @ + Len(newPaths),
                       !.stats.activePaths = @ + Len(newPaths)]

\* the session after expandPath
Beam_expandPath(pathId, s, localScores, base) ==
    IF pathId \notin DOMAIN s.paths THEN s
    ELSE
        LET s1 == Beam_expandLoop(0, pathId, s, localScores, base)
            newPaths == [k \in 1..(s1.lastPathId - s.lastPathId) |-> s.lastPathId + k]
            s2 == IF Len(newPaths) > 0
                  THEN [s1 EXCEPT !.paths[pathId].status = "completed",
                                  !.stats.completedPaths = @ + 1,
                                  !.stats.activePaths = @ - 1]
                  ELSE s1
        IN  [s2 EXCEPT !.activePaths = @ \o newPaths,
                       !.stats.totalPaths = @ + Len(newPaths),
                       !.stats.activePaths = @ + Len(newPaths)]

\* session.activePaths.forEach of generateNextGeneration from index i on;
\* n is the length activePaths had when forEach began
RECURSIVE Beam_generateLoop(_, _, _, _, _)
Beam_generateLoop(i, n, s, localScores, base) ==
    IF i > n THEN s
    ELSE
        LET pathId == s.activePaths[i]
        IN  IF pathId \in DOMAIN s.paths /\ s.paths[pathId].status = "active"
            THEN Beam_generateLoop(i + 1, n, Beam_expandPath(pathId, s, localScores, base),
                                   localScores, base)
            ELSE Beam_generateLoop(i + 1, n, s, localScores, base)

Beam_generateNextGeneration(s, localScores) ==
    LET s1 == [s EXCEPT !.currentGeneration = @ + 1]
        s2 == Beam_generateLoop(1, Len(s1.activePaths), s1, localScores, Len(s.nodes))
        newNodes == [k \in 1..(Len(s2.nodes) - Len(s.nodes)) |-> Len(s.nodes) + k]
    IN  [ s |-> [s2 EXCEPT !.stats.nodesExplored = @ + Len(newNodes)],
          err |-> "none",
          ret |-> newNodes ]

Beam_calculatePathSimilarity(nodeIds1, nodeIds2) ==
    LET set1 == Range(nodeIds1)
        set2 == Range(nodeIds2)
    IN  IF Cardinality(set1 \cup set2) > 0
        THEN (Cardinality(set1 \cap set2) * 1000) \div Cardinality(set1 \cup set2)
        ELSE 0

Beam_calculatePathDiversity(pathId, s) ==
    IF Len(s.activePaths) <= 1 THEN 1000
    ELSE
        LET others == SelectSeq(s.activePaths, LAMBDA id : id # pathId /\ id \in DOMAIN s.paths)
            totalSimilarity ==
                SumSeq([k \in 1..Len(others) |->
                    Beam_calculatePathSimilarity(s.paths[pathId].nodeIds, s.paths[others[k]].nodeIds)])
        IN  IF Len(others) > 0 THEN 1000 - (totalSimilarity \div Len(others)) ELSE 1000

Beam_calculatePathScore(pathId, s) ==
    LET nodeIds == s.paths[pathId].nodeIds
        n == Len(nodeIds)
        localScores == [k \in 1..n |-> s.nodes[nodeIds[k]].localScore]
        totalScore == SumSeq(localScores)
        \* Math.pow(0.9, n - index - 1), all weights scaled by 10^(n-1)
        weights == [k \in 1..n |-> Pow(9, n - k) * Pow(10, k - 1)]
        baseScore ==
            CASE s.config.scoreAggregation = "sum" -> totalScore
              [] s.config.scoreAggregation = "average" ->
                    IF n > 0 THEN totalScore \div n ELSE 0
              [] s.config.scoreAggregation = "max" ->
                    IF n > 0 THEN Max(0, MaxSeq(localScores)) ELSE 0
              [] s.config.scoreAggregation = "weighted" ->
                    IF n > 0
                    THEN SumSeq([k \in 1..n |-> localScores[k] * weights[k]]) \div SumSeq(weights)
                    ELSE 0
              [] OTHER -> 0
        diversityBonus ==
            IF s.config.diversityBonus # 0
            THEN (Beam_calculatePathDiversity(pathId, s) * s.config.diversityBonus) \div 1000
            ELSE 0
        lengthPenalty == Max(0, 1000 - n * 50)
        lengthAdjustment == lengthPenalty \div 10
    IN  baseScore + diversityBonus + lengthAdjustment

\* session.activePaths.forEach of evaluatePaths from index i on
RECURSIVE Beam_evaluateLoop(_, _, _)
Beam_evaluateLoop(i, s, scores) ==
    IF i > Len(s.activePaths) THEN [s |-> s, err |-> "none", ret |-> scores]
    ELSE
        LET pathId == s.activePaths[i]
        IN  IF pathId \in DOMAIN s.paths /\ s.paths[pathId].status = "active"
            THEN
                LET score == Beam_calculatePathScore(pathId, s)
                    s1 == [s EXCEPT !.paths[pathId].currentScore = score,
                                    !.paths[pathId].scoreHistory = Append(@, score)]
                    s2 == IF score > s1.stats.bestScore
                          THEN [s1 EXCEPT !.stats.bestScore = score,
                                          !.stats.bestScoreGeneration = s1.currentGeneration]
                          ELSE s1
                IN  Beam_evaluateLoop(i + 1, s2, (pathId :> score) @@ scores)
            ELSE Beam_evaluateLoop(i + 1, s, scores)

\* ret is the Map of the scores
Beam_evaluatePaths(s) == Beam_evaluateLoop(1, s, <<>>)

\* Array.prototype.sort((a, b) => b.score - a.score), a stable sort: x goes
\* behind the entries of the sorted prefix that score at least as much
Beam_insertSorted(sorted, x) ==
    LET k == Cardinality({i \in 1..Len(sorted) : sorted[i].score >= x.score})
    IN  SubSeq(sorted, 1, k) \o <<x>> \o SubSeq(sorted, k + 1, Len(sorted))

RECURSIVE Beam_sortByScore(_, _)
Beam_sortByScore(list, sorted) ==
    IF list = <<>> THEN sorted
    ELSE Beam_sortByScore(Tail(list), Beam_insertSorted(sorted, Head(list)))

\* the pruning threshold of prunePaths
Beam_threshold(sortedPaths, s) ==
    CASE s.config.pruningStrategy = "absolute" -> 300
      [] s.config.pruningStrategy = "relative" ->
            IF Len(sortedPaths) > s.beamWidth
            THEN sortedPaths[s.beamWidth + 1].score
            ELSE 0
      [] s.config.pruningStrategy = "adaptive" ->
            ((SumSeq([k \in 1..Len(sortedPaths) |-> sortedPaths[k].score])
                \div Len(sortedPaths)) * 8) \div 10
      [] OTHER -> 0

\* the test of prunePaths that keeps the path at the wrong rank too
Beam_keepsPath_offByOne(index, score, threshold, s) ==
    index <= s.beamWidth /\ score >= threshold

\* the test of prunePaths that keeps a path: index is its 0-based rank
Beam_keepsPath(index, score, threshold, s) ==
    index < s.beamWidth /\ score >= threshold

\* sortedPaths.forEach of prunePaths from (1-based) position i on
RECURSIVE Beam_pruneLoop(_, _, _, _, _, _)
Beam_pruneLoop(i, sortedPaths, threshold, s, newActivePaths, prunedPathIds) ==
    IF i > Len(sortedPaths)
    THEN [ s |-> [s EXCEPT !.activePaths = newActivePaths,
                           !.stats.prunedPaths = @ + Len(prunedPathIds),
                           !.stats.activePaths = Len(newActivePaths)],
           err |-> "none",
           ret |-> prunedPathIds ]
    ELSE
        LET pathData == sortedPaths[i]
        IN  IF Beam_keepsPath(i - 1, pathData.score, threshold, s)
            THEN Beam_pruneLoop(i + 1, sortedPaths, threshold, s,
                                Append(newActivePaths, pathData.pathId), prunedPathIds)
            ELSE IF pathData.pathId \in DOMAIN s.paths
            THEN Beam_pruneLoop(i + 1, sortedPaths, threshold,
                    IF s.config.keepPrunedPaths
                    THEN [s EXCEPT !.paths[pathData.pathId].status = "pruned"]
                    ELSE [s EXCEPT !.paths = MapDelete(@, pathData.pathId)],
                    newActivePaths, Append(prunedPathIds, pathData.pathId))
            ELSE Beam_pruneLoop(i + 1, sortedPaths, threshold, s, newActivePaths, prunedPathIds)

Beam_prunePaths(s) ==
    IF Len(s.activePaths) <= s.beamWidth
    THEN [s |-> s, err |-> "none", ret |-> <<>>]
    ELSE
        LET e == Beam_evaluatePaths(s)
            \* scores.get(pathId) || 0
            unsorted == [k \in 1..Len(s.activePaths) |->
                            [ pathId |-> s.activePaths[k],
                              score |-> IF s.activePaths[k] \in DOMAIN e.ret
                                        THEN e.ret[s.activePaths[k]] ELSE 0 ]]
            sortedPaths == Beam_sortByScore(unsorted, <<>>)
        IN  Beam_pruneLoop(1, sortedPaths, Beam_threshold(sortedPaths, e.s), e.s, <<>>, <<>>)

Beam_calculateConsensus(s) ==
    IF Len(s.activePaths) <= 1 THEN 1000
    ELSE
        LET paths == SelectSeq(s.activePaths, LAMBDA id : id \in DOMAIN s.paths)
            n == Len(paths)
            totalSimilarity ==
                SumSeq([i \in 1..n |->
                    SumSeq([j \in 1..n |->
                        IF i < j
                        THEN Beam_calculatePathSimilarity(s.paths[paths[i]].nodeIds,
                                                          s.paths[paths[j]].nodeIds)
                        ELSE 0])])
            comparisons == (n * (n - 1)) \div 2
        IN  IF comparisons > 0 THEN totalSimilarity \div comparisons ELSE 0

\* the scores calculateScoreImprovement collects from the histories of the
\* paths whose ids are listed in ids
RECURSIVE Beam_recentScores(_, _)
Beam_recentScores(ids, s) ==
    IF ids = <<>> THEN <<>>
    ELSE
        LET history == s.paths[Head(ids)].scoreHistory
            startGen == Max(0, s.currentGeneration - 3)
            last == Min(s.currentGeneration, Len(history) - 1)
        IN  SubSeq(history, startGen + 1, last + 1) \o Beam_recentScores(Tail(ids), s)

Beam_calculateScoreImprovement(s) ==
    LET recentScores == Beam_recentScores(SortedIds(DOMAIN s.paths), s)
        half == Len(recentScores) \div 2
    IN  IF Len(recentScores) < 2 THEN 1000
        ELSE
            LET oldMax == MaxSeq(SubSeq(recentScores, 1, half))
                newMax == MaxSeq(SubSeq(recentScores, half + 1, Len(recentScores)))
            IN  IF oldMax > 0 THEN ((newMax - oldMax) * 1000) \div oldMax ELSE 0

\* checkConvergence whose generation test is `>` for `>=`
Beam_checkConvergence_generationsExceeded(s) ==
    LET criteria == s.convergenceCriteria
    IN  IF criteria.maxGenerations # 0 /\ s.currentGeneration > criteria.maxGenerations THEN TRUE
        ELSE IF criteria.targetScore # 0 /\ s.stats.bestScore >= criteria.targetScore THEN TRUE
        ELSE IF criteria.consensusThreshold # 0 /\ Len(s.activePaths) > 0
                /\ Beam_calculateConsensus(s) >= criteria.consensusThreshold THEN TRUE
        ELSE IF criteria.minScoreImprovement # 0 /\ s.currentGeneration > 2
                /\ Beam_calculateScoreImprovement(s) < criteria.minScoreImprovement THEN TRUE
        ELSE FALSE

Beam_checkConvergence(s) ==
    LET criteria == s.convergenceCriteria
    IN  IF criteria.maxGenerations # 0 /\ s.currentGeneration >= criteria.maxGenerations THEN TRUE
        ELSE IF criteria.targetScore # 0 /\ s.stats.bestScore >= criteria.targetScore THEN TRUE
        ELSE IF criteria.consensusThreshold # 0 /\ Len(s.activePaths) > 0
                /\ Beam_calculateConsensus(s) >= criteria.consensusThreshold THEN TRUE
        ELSE IF criteria.minScoreImprovement # 0 /\ s.currentGeneration > 2
                /\ Beam_calculateScoreImprovement(s) < criteria.minScoreImprovement THEN TRUE
        ELSE FALSE

\* the keys of the counts Map of mergeNodeSequences: the node ids of
\* nodesAtPosition in the order of their first occurrence
RECURSIVE Beam_countKeys(_, _)
Beam_countKeys(nodesAtPosition, keys) ==
    IF nodesAtPosition = <<>> THEN keys
    ELSE Beam_countKeys(Tail(nodesAtPosition),
            IF \E k \in 1..Len(keys) : keys[k] = Head(nodesAtPosition)
            THEN keys
            ELSE Append(keys, Head(nodesAtPosition)))

\* the test of counts.forEach with >= for >: the last of the most frequent wins
Beam_beatsMax_orTies(count, maxCount) == count >= maxCount

\* the test of counts.forEach: count > maxCount
Beam_beatsMax(count, maxCount) == count > maxCount

\* counts.forEach of mergeNodeSequences over the keys left
RECURSIVE Beam_mostCommonLoop(_, _, _, _)
Beam_mostCommonLoop(keys, nodesAtPosition, maxCount, mostCommon) ==
    IF keys = <<>> THEN mostCommon
    ELSE
        LET count == Cardinality({k \in 1..Len(nodesAtPosition) : nodesAtPosition[k] = Head(keys)})
        IN  IF Beam_beatsMax(count, maxCount)
            THEN Beam_mostCommonLoop(Tail(keys), nodesAtPosition, count, Head(keys))
            ELSE Beam_mostCommonLoop(Tail(keys), nodesAtPosition, maxCount, mostCommon)

\* the node id at 0-based position i of the merged sequence
Beam_mostCommon(sequences, i) ==
    LET long == SelectSeq(sequences, LAMBDA seq : Len(seq) > i)
        nodesAtPosition == [k \in 1..Len(long) |-> long[k][i + 1]]
    IN  Beam_mostCommonLoop(Beam_countKeys(nodesAtPosition, <<>>), nodesAtPosition,
                            0, nodesAtPosition[1])

Beam_mergeNodeSequences(sequences) ==
    IF Len(sequences) = 0 THEN <<>>
    ELSE IF Len(sequences) = 1 THEN sequences[1]
    ELSE
        LET maxLength == MaxSeq([k \in 1..Len(sequences) |-> Len(sequences[k])])
        IN  [i \in 1..maxLength |-> Beam_mostCommon(sequences, i - 1)]

\* mergedNodeIds.forEach of mergePaths: node.pathIds.push(mergedPathId)
RECURSIVE Beam_referMerged(_, _, _)
Beam_referMerged(nodeIds, mergedPathId, s) ==
    IF nodeIds = <<>> THEN s
    ELSE Beam_referMerged(Tail(nodeIds), mergedPathId,
            IF Head(nodeIds) \in DOMAIN s.nodes
            THEN [s EXCEPT !.nodes[Head(nodeIds)].pathIds = Append(@, mergedPathId)]
            ELSE s)

\* pathIds.forEach of mergePaths: mark the original paths as merged
RECURSIVE Beam_markMerged(_, _, _)
Beam_markMerged(pathIds, mergedPathId, s) ==
    IF pathIds = <<>> THEN s
    ELSE Beam_markMerged(Tail(pathIds), mergedPathId,
            IF Head(pathIds) \in DOMAIN s.paths
            THEN [s EXCEPT !.paths[Head(pathIds)].status = "merged",
                           !.paths[Head(pathIds)].mergedIntoPathId = mergedPathId,
                           !.activePaths = SpliceFirst(@, Head(pathIds))]
            ELSE s)

Beam_mergePaths(pathIds, s) ==
    IF Len(pathIds) < 2
    THEN [s |-> s, err |-> "Need at least 2 paths to merge", ret |-> 0]
    ELSE IF \E k \in 1..Len(pathIds) : pathIds[k] \notin DOMAIN s.paths
    THEN [s |-> s, err |-> "Some paths not found", ret |-> 0]
    ELSE
        LET mergedPathId == s.lastPathId + 1
            mergedNodeIds ==
                Beam_mergeNodeSequences([k \in 1..Len(pathIds) |-> s.paths[pathIds[k]].nodeIds])
            avgScore == SumSeq([k \in 1..Len(pathIds) |-> s.paths[pathIds[k]].currentScore])
                            \div Len(pathIds)
            mergedPath == [ nodeIds |-> mergedNodeIds,
                            currentScore |-> avgScore,
                            status |-> "active",
                            scoreHistory |-> <<avgScore>>,
                            mergedIntoPathId |-> 0 ]
            s1 == Beam_referMerged(mergedNodeIds, mergedPathId, s)
            s2 == Beam_markMerged(pathIds, mergedPathId, s1)
        IN  [ s |-> [s2 EXCEPT !.paths = (mergedPathId :> mergedPath) @@ @,
                               !.lastPathId = mergedPathId,
                               !.activePaths = Append(@, mergedPathId),
                               !.stats.mergedPaths = @ + Len(pathIds)],
              err |-> "none",
              ret |-> mergedPathId ]

\* the inner loop of attemptPathMerging from j on: the paths similar to
\* paths[i] and the merged set
RECURSIVE Beam_similarLoop(_, _, _, _, _, _)
Beam_similarLoop(i, j, paths, s, similarPaths, merged) ==
    IF j > Len(paths) THEN [similarPaths |-> similarPaths, merged |-> merged]
    ELSE IF paths[j].id \in merged
    THEN Beam_similarLoop(i, j + 1, paths, s, similarPaths, merged)
    ELSE IF Beam_calculatePathSimilarity(paths[i].nodeIds, paths[j].nodeIds)
                >= s.config.mergeThreshold
    THEN Beam_similarLoop(i, j + 1, paths, s,
                          Append(similarPaths, paths[j].id), merged \cup {paths[j].id})
    ELSE Beam_similarLoop(i, j + 1, paths, s, similarPaths, merged)

\* the outer loop of attemptPathMerging from i on
RECURSIVE Beam_mergingLoop(_, _, _, _)
Beam_mergingLoop(i, paths, s, merged) ==
    IF i > Len(paths) THEN s
    ELSE IF paths[i].id \in merged THEN Beam_mergingLoop(i + 1, paths, s, merged)
    ELSE
        LET r == Beam_similarLoop(i, i + 1, paths, s, <<paths[i].id>>, merged)
        IN  IF Len(r.similarPaths) > 1
            THEN Beam_mergingLoop(i + 1, paths, Beam_mergePaths(r.similarPaths, s).s,
                                  r.merged \cup Range(r.similarPaths))
            ELSE Beam_mergingLoop(i + 1, paths, s, r.merged)

Beam_attemptPathMerging(s) ==
    IF s.config.mergeThreshold = 0 THEN s
    ELSE
        LET present == SelectSeq(s.activePaths, LAMBDA id : id \in DOMAIN s.paths)
            paths == [k \in 1..Len(present) |->
                        [id |-> present[k], nodeIds |-> s.paths[present[k]].nodeIds]]
        IN  Beam_mergingLoop(1, paths, s, {})

Beam_updateStatistics(s) ==
    LET counted == SelectSeq(SortedIds(DOMAIN s.paths),
                             LAMBDA id : s.paths[id].status \in {"active", "completed"})
        totalLength == SumSeq([k \in 1..Len(counted) |-> Len(s.paths[counted[k]].nodeIds)])
        scores == [k \in 1..Len(s.activePaths) |->
                      IF s.activePaths[k] \in DOMAIN s.paths
                      THEN s.paths[s.activePaths[k]].currentScore ELSE 0]
        mean == SumSeq(scores) \div Len(scores)
        variance == (SumSeq([k \in 1..Len(scores) |-> (scores[k] - mean) * (scores[k] - mean)])
                        \div Len(scores)) \div 1000
        s1 == [s EXCEPT !.stats.averagePathLength =
                            IF Len(counted) > 0 THEN (totalLength * 1000) \div Len(counted) ELSE 0]
    IN  IF Len(scores) > 0 THEN [s1 EXCEPT !.stats.scoreVariance = variance] ELSE s1

\* if (session.config.allowMerging) this.attemptPathMerging(session)
Beam_mergeIfAllowed(s) ==
    IF s.config.allowMerging THEN Beam_attemptPathMerging(s) ELSE s

\* if (this.checkConvergence(session)) session.nextStepNeeded = false;
\* session.iteration++
Beam_closeIteration(s) ==
    [s EXCEPT !.nextStepNeeded = IF Beam_checkConvergence(s) THEN FALSE ELSE @,
              !.iteration = @ + 1]

Beam_runIteration(s, localScores) ==
    [ s |-> Beam_closeIteration(
                Beam_updateStatistics(
                    Beam_mergeIfAllowed(
                        Beam_prunePaths(
                            Beam_evaluatePaths(
                                Beam_generateNextGeneration(s, localScores).s).s).s))),
      err |-> "none",
      ret |-> 0 ]

\* session.paths.forEach of getBestPath: bestPath 0 is null, whose bestScore
\* is -Infinity
RECURSIVE Beam_bestPathLoop(_, _, _)
Beam_bestPathLoop(pathIds, bestPath, s) ==
    IF pathIds = <<>> THEN bestPath
    ELSE IF bestPath = 0 \/ s.paths[Head(pathIds)].currentScore > s.paths[bestPath].currentScore
    THEN Beam_bestPathLoop(Tail(pathIds), Head(pathIds), s)
    ELSE Beam_bestPathLoop(Tail(pathIds), bestPath, s)

\* the id of the best path, 0 for null
Beam_getBestPath(s) ==
    IF DOMAIN s.paths = {} THEN 0 ELSE Beam_bestPathLoop(SortedIds(DOMAIN s.paths), 0, s)

\* the thought texts of the records exported, in order
Beam_exportToSequentialFormat(s) ==
    IF Beam_getBestPath(s) = 0 THEN <<>>
    ELSE LET nodeIds == SelectSeq(s.paths[Beam_getBestPath(s)].nodeIds,
                                  LAMBDA nodeId : nodeId \in DOMAIN s.nodes)
         IN  [index \in 1..Len(nodeIds) |-> s.nodes[nodeIds[index]].content]

\* thoughts.forEach of importFromSequentialFormat from thought i on
RECURSIVE Beam_importLoop(_, _, _, _)
Beam_importLoop(i, thoughts, pathId, s) ==
    IF i > Len(thoughts) THEN s
    ELSE
        LET node == [ content |-> [text |-> thoughts[i], generation |-> 0, branch |-> 0],
                      pathIds |-> <<pathId>>,
                      generationNumber |-> i - 1,
                      localScore |-> 500,
                      cumulativeScore |-> NoScore ]
        IN  Beam_importLoop(i + 1, thoughts, pathId, [s EXCEPT !.nodes = Append(@, node)])

Beam_importFromSequentialFormat(thoughts) ==
    LET session == Beam_initializeSession(5, <<>>)
        pathId == session.lastPathId + 1
        s1 == Beam_importLoop(1, thoughts, pathId, session)
        path == [ nodeIds |-> [k \in 1..Len(thoughts) |-> k],
                  currentScore |-> 0,
                  status |-> "active",
                  scoreHistory |-> <<>>,
                  mergedIntoPathId |-> 0 ]
    IN  [ s |-> [s1 EXCEPT !.paths = (pathId :> path) @@ @,
                           !.lastPathId = pathId,
                           !.activePaths = <<pathId>>],
          err |-> "none",
          ret |-> 0 ]

(***************************************************************************)
(* Monte Carlo Tree Search handler                                         *)
(* session.nodes is the sequence of the node objects in creation order     *)
(* (the handler never deletes a node); parentId 0 and action "" stand for  *)
(* an absent parentId and metadata.action, outcomes.set tells whether      *)
(* metadata.outcomes exists.  Values are thousandths; the                  *)
(* logarithm and the square root of calculateUCB are rounded down to the   *)
(* thousandth.  A rollout is the average of its random draws, given as an  *)
(* input; the wall clock is the input elapsed.  Timestamps, the state      *)
(* representation and simulationsPerSecond are not modelled.               *)
(***************************************************************************)
Infinity == 1000000000
NegInfinity == -1000000000
NaN == -999999999

\* a > b on JS numbers
NumberGreater(a, b) == a # NaN /\ b # NaN /\ a > b

\* Math.log of a whole number, in thousandths
Ln(n) ==
    IF n <= 0 THEN NegInfinity
    ELSE IF n <= 12
    THEN <<0, 693, 1098, 1386, 1609, 1791, 1945, 2079, 2197, 2302, 2397, 2484>>[n]
    ELSE 2484 + ((n - 12) * 1000) \div n

\* the largest r in lo..hi with r * r <= n
RECURSIVE IsqrtLoop(_, _, _)
IsqrtLoop(n, lo, hi) ==
    IF lo >= hi THEN lo
    ELSE LET mid == (lo + hi + 1) \div 2
         IN  IF mid * mid <= n THEN IsqrtLoop(n, mid, hi) ELSE IsqrtLoop(n, lo, mid - 1)

\* Math.sqrt of x thousandths, in thousandths
Sqrt(x) ==
    IF x = NaN \/ x < 0 THEN NaN
    ELSE IF x = Infinity THEN Infinity
    ELSE IsqrtLoop(x * 1000, 0, Min(x * 1000, 46340))

Mcts_defaultConfig ==
    [ ucbVariant |-> "ucb1",
      useRAVE |-> FALSE,
      raveBias |-> 500,
      progressiveWidening |-> [enabled |-> FALSE, alpha |-> 500, beta |-> 0],
      virtualLoss |-> 0,
      reuseTree |-> FALSE,
      usePriors |-> FALSE,
      useTranspositions |-> FALSE ]

Mcts_defaultTerminationCriteria ==
    [ maxSimulations |-> 1000,
      timeLimit |-> 60000,
      confidenceThreshold |-> 950,
      minVisitsThreshold |-> 10 ]

\* { ...this.defaultConfig, ...config }
Mcts_mergeConfig(config) ==
    [k \in DOMAIN Mcts_defaultConfig |->
        IF k \in DOMAIN config THEN config[k] ELSE Mcts_defaultConfig[k]]

Mcts_generateInitialActions == <<"action1", "action2", "action3", "action4", "action5">>

Mcts_initializeSession(explorationConstant, config) ==
    [ iteration |-> 0,
      nextStepNeeded |-> TRUE,
      rootNodeId |-> 1,
      nodes |-> << [ content |-> <<"Root: Initial State">>,
                     parentId |-> 0,
                     childrenIds |-> <<>>,
                     visits |-> 0,
                     totalValue |-> 0,
                     averageValue |-> 0,
                     untriedActions |-> Mcts_generateInitialActions,
                     isTerminal |-> FALSE,
                     action |-> "",
                     depth |-> 0,
                     outcomes |-> [set |-> FALSE, wins |-> 0, losses |-> 0, draws |-> 0],
                     ucbScore |-> NoScore ] >>,
      explorationConstant |-> explorationConstant,
      simulationDepth |-> 10,
      totalSimulations |-> 0,
      rolloutPolicy |-> "random",
      terminationCriteria |-> Mcts_defaultTerminationCriteria,
      config |-> Mcts_mergeConfig(config),
      currentPhase |-> "",
      currentSimulationPath |-> <<>>,
      bestLeafNodeId |-> 0,
      stats |-> [ totalNodes |-> 1,
                  maxDepth |-> 0,
                  averageBranchingFactor |-> 0,
                  bestActionVisits |-> 0,
                  bestActionValue |-> 0,
                  explorationRatio |-> 0,
                  effectiveBranchingFactor |-> 0 ] ]

Mcts_isLeaf(node) == Len(node.untriedActions) > 0 \/ Len(node.childrenIds) = 0

Mcts_calculateVariance(node) ==
    IF node.visits <= 1 THEN 0
    ELSE (node.averageValue * (1000 - node.averageValue)) \div 1000

\* session.nodes.forEach of getRAVEStatistics
Mcts_getRAVEStatistics(action, s) ==
    LET same == SelectSeq(s.nodes, LAMBDA n : n.action = action)
        totalVisits == SumSeq([k \in 1..Len(same) |-> same[k].visits])
        totalValue == SumSeq([k \in 1..Len(same) |-> same[k].totalValue])
    IN  [ visits |-> totalVisits,
          averageValue |-> IF totalVisits > 0 THEN totalValue \div totalVisits ELSE 0 ]

\* Math.log(parentVisits) / node.visits, in thousandths
Mcts_logRatio(parentVisits, visits) ==
    IF parentVisits <= 0 THEN NegInfinity ELSE Ln(parentVisits) \div visits

\* a product or sum with a term that may be NaN or infinite
Mcts_scaled(factor, x) ==
    IF x = NaN THEN NaN
    ELSE IF x = Infinity THEN (IF factor > 0 THEN Infinity ELSE IF factor < 0 THEN NegInfinity ELSE NaN)
    ELSE (factor * x) \div 1000

Mcts_plus(a, b) ==
    IF a = NaN \/ b = NaN THEN NaN
    ELSE IF a = Infinity \/ b = Infinity THEN Infinity
    ELSE IF a = NegInfinity \/ b = NegInfinity THEN NegInfinity
    ELSE a + b

\* the exploration term of calculateUCB for a visited node
Mcts_explorationTerm(node, parentVisits, s) ==
    CASE s.config.ucbVariant = "ucb1-tuned" ->
            LET ratio == Mcts_logRatio(parentVisits, node.visits)
                V == Mcts_plus(Mcts_calculateVariance(node),
                               Sqrt(IF ratio = NegInfinity THEN NegInfinity ELSE 2 * ratio))
            IN  IF V = NaN THEN NaN
                ELSE Sqrt(IF ratio = NegInfinity THEN NegInfinity
                          ELSE (ratio * Min(250, V)) \div 1000)
      [] s.config.ucbVariant = "puct" ->
            LET siblings == IF node.parentId # 0
                            THEN Len(s.nodes[node.parentId].childrenIds) ELSE 0
                prior == 1000 \div (IF siblings # 0 THEN siblings ELSE 1)
            IN  (((s.explorationConstant * prior) \div 1000) * Sqrt(parentVisits * 1000))
                    \div (1000 * (1 + node.visits))
      [] OTHER ->
            Mcts_scaled(s.explorationConstant, Sqrt(Mcts_logRatio(parentVisits, node.visits)))

\* the prior bias calculateUCB adds for the puct variant
Mcts_priorBias(node, s) ==
    IF s.config.ucbVariant = "puct"
    THEN LET siblings == IF node.parentId # 0
                         THEN Len(s.nodes[node.parentId].childrenIds) ELSE 0
         IN  1000 \div (IF siblings # 0 THEN siblings ELSE 1)
    ELSE 0

\* the exploitation term of calculateUCB, with the RAVE term when enabled
Mcts_exploitationTerm(node, s) ==
    IF s.config.useRAVE /\ node.action # ""
    THEN LET raveStats == Mcts_getRAVEStatistics(node.action, s)
             beta == Sqrt((s.config.raveBias * 1000) \div (3000 * node.visits + s.config.raveBias))
         IN  IF raveStats.visits > 0
             THEN ((1000 - beta) * node.averageValue + beta * raveStats.averageValue) \div 1000
             ELSE node.averageValue
    ELSE node.averageValue

\* calculateUCB that scores every node 0, an unvisited one included
Mcts_calculateUCB_unvisitedZero(nodeId, parentVisits, s) == [s |-> s, err |-> "none", ret |-> 0]

\* ret is the score; the score of a visited node is stored in the node
Mcts_calculateUCB(nodeId, parentVisits, s) ==
    IF nodeId \notin DOMAIN s.nodes THEN [s |-> s, err |-> "none", ret |-> 0]
    ELSE IF s.nodes[nodeId].visits = 0 THEN [s |-> s, err |-> "none", ret |-> Infinity]
    ELSE
        LET node == s.nodes[nodeId]
            ucbScore == Mcts_plus(Mcts_plus(Mcts_exploitationTerm(node, s),
                                            Mcts_explorationTerm(node, parentVisits, s)),
                                  Mcts_priorBias(node, s))
        IN  [ s |-> [s EXCEPT !.nodes[nodeId].ucbScore = ucbScore],
              err |-> "none",
              ret |-> ucbScore ]

\* childrenIds.forEach of selectBestChild: bestChild 0 is null
RECURSIVE Mcts_selectBestChildLoop(_, _, _, _, _)
Mcts_selectBestChildLoop(childrenIds, parentVisits, bestChild, bestUCB, s) ==
    IF childrenIds = <<>> THEN [s |-> s, err |-> "none", ret |-> bestChild]
    ELSE LET r == Mcts_calculateUCB(Head(childrenIds), parentVisits, s)
         IN  IF NumberGreater(r.ret, bestUCB)
             THEN Mcts_selectBestChildLoop(Tail(childrenIds), parentVisits, Head(childrenIds), r.ret, r.s)
             ELSE Mcts_selectBestChildLoop(Tail(childrenIds), parentVisits, bestChild, bestUCB, r.s)

Mcts_selectBestChild(nodeId, s) ==
    LET r == Mcts_selectBestChildLoop(s.nodes[nodeId].childrenIds, s.nodes[nodeId].visits,
                                      0, NegInfinity, s)
    IN  IF r.ret # 0 THEN r ELSE [r EXCEPT !.ret = s.nodes[nodeId].childrenIds[1]]

\* the while loop of selectLeaf, from the node currentNode
RECURSIVE Mcts_selectLeafLoop(_, _)
Mcts_selectLeafLoop(currentNode, s) ==
    IF Mcts_isLeaf(s.nodes[currentNode]) \/ s.nodes[currentNode].isTerminal
    THEN [s |-> s, err |-> "none", ret |-> currentNode]
    ELSE LET r == Mcts_selectBestChild(currentNode, s)
         IN  Mcts_selectLeafLoop(r.ret, r.s)

Mcts_selectLeaf(s) == Mcts_selectLeafLoop(s.rootNodeId, s)

Mcts_generateActionsForState(previousAction) ==
    SelectSeq(<<"continue", "branch_left", "branch_right", "backtrack", "terminate">>,
              LAMBDA a : a # previousAction)

Mcts_isTerminalState(action, s) ==
    action = "terminate" \/ s.stats.maxDepth >= s.simulationDepth

\* the child expandNode builds for the action drawn
Mcts_childNode(nodeId, action, s) ==
    [ content |-> s.nodes[nodeId].content \o <<" -> ", action>>,
      parentId |-> nodeId,
      childrenIds |-> <<>>,
      visits |-> 0,
      totalValue |-> 0,
      averageValue |-> 0,
      untriedActions |-> Mcts_generateActionsForState(action),
      isTerminal |-> Mcts_isTerminalState(action, s),
      action |-> action,
      depth |-> s.nodes[nodeId].depth + 1,
      outcomes |-> [set |-> FALSE, wins |-> 0, losses |-> 0, draws |-> 0],
      ucbScore |-> NoScore ]

\* list.splice(index, 1), index counted from 1
SpliceAt(list, index) == SubSeq(list, 1, index - 1) \o SubSeq(list, index + 1, Len(list))

\* expandNode that leaves the drawn action in the untried list
Mcts_expandNode_keepsAction(nodeId, s, random) ==
    IF nodeId \notin DOMAIN s.nodes THEN [s |-> s, err |-> "no untried actions", ret |-> 0]
    ELSE IF Len(s.nodes[nodeId].untriedActions) = 0
    THEN [s |-> s, err |-> "no untried actions", ret |-> 0]
    ELSE
        LET node == s.nodes[nodeId]
            actionIndex == (random * Len(node.untriedActions)) \div 1000
            childNode == Mcts_childNode(nodeId, node.untriedActions[actionIndex + 1], s)
            childId == Len(s.nodes) + 1
        IN  [ s |-> [s EXCEPT
                       !.nodes = Append([@ EXCEPT ![nodeId].childrenIds = Append(@, childId)],
                                        childNode),
                       !.stats.totalNodes = @ + 1,
                       !.stats.maxDepth = Max(@, childNode.depth)],
              err |-> "none",
              ret |-> childId ]

\* random is the draw of Math.random(), in thousandths; ret is the child's id
Mcts_expandNode(nodeId, s, random) ==
    IF nodeId \notin DOMAIN s.nodes THEN [s |-> s, err |-> "no untried actions", ret |-> 0]
    ELSE IF Len(s.nodes[nodeId].untriedActions) = 0
    THEN [s |-> s, err |-> "no untried actions", ret |-> 0]
    ELSE
        LET node == s.nodes[nodeId]
            actionIndex == (random * Len(node.untriedActions)) \div 1000
            childNode == Mcts_childNode(nodeId, node.untriedActions[actionIndex + 1], s)
            childId == Len(s.nodes) + 1
        IN  [ s |-> [s EXCEPT
                       !.nodes = Append([@ EXCEPT
                                           ![nodeId].untriedActions = SpliceAt(@, actionIndex + 1),
                                           ![nodeId].childrenIds = Append(@, childId)],
                                        childNode),
                       !.stats.totalNodes = @ + 1,
                       !.stats.maxDepth = Max(@, childNode.depth)],
              err |-> "none",
              ret |-> childId ]

\* rollout is the average of the draws of a random rollout, in thousandths;
\* every session the handler builds has the rollout policy 'random'
Mcts_simulate(nodeId, s, rollout) ==
    IF nodeId \notin DOMAIN s.nodes THEN 0
    ELSE IF s.nodes[nodeId].depth < s.simulationDepth /\ ~s.nodes[nodeId].isTerminal
    THEN rollout
    ELSE 0

\* the statistics update backpropagate applies to one node
Mcts_backpropagateNode(node, value) ==
    [node EXCEPT
        !.visits = @ + 1,
        !.totalValue = @ + value,
        !.averageValue = (node.totalValue + value) \div (node.visits + 1),
        !.outcomes = [ set |-> TRUE,
                       wins |-> IF value > 600 THEN @.wins + 1 ELSE @.wins,
                       losses |-> IF value <= 600 /\ value < 400 THEN @.losses + 1 ELSE @.losses,
                       draws |-> IF value <= 600 /\ value >= 400 THEN @.draws + 1 ELSE @.draws ]]

\* backpropagate that updates the leaf and never moves to the parent
Mcts_backpropagate_leafOnly(currentNodeId, value, s) ==
    IF currentNodeId = 0 \/ currentNodeId \notin DOMAIN s.nodes THEN s
    ELSE [s EXCEPT !.nodes[currentNodeId].visits = @ + 1,
                   !.nodes[currentNodeId].totalValue = @ + value,
                   !.nodes[currentNodeId].averageValue =
                       (s.nodes[currentNodeId].totalValue + value) \div (s.nodes[currentNodeId].visits + 1)]

\* the while loop of backpropagate; currentNodeId 0 is undefined
RECURSIVE Mcts_backpropagate(_, _, _)
Mcts_backpropagate(currentNodeId, value, s) ==
    IF currentNodeId = 0 \/ currentNodeId \notin DOMAIN s.nodes THEN s
    ELSE Mcts_backpropagate(s.nodes[currentNodeId].parentId, value,
            [s EXCEPT !.nodes[currentNodeId] = Mcts_backpropagateNode(@, value)])

\* childrenIds.forEach of getBestAction and getBestPath: the first child with
\* the most visits
RECURSIVE Mcts_mostVisitedLoop(_, _, _, _)
Mcts_mostVisitedLoop(childrenIds, bestChild, maxVisits, s) ==
    IF childrenIds = <<>> THEN bestChild
    ELSE IF s.nodes[Head(childrenIds)].visits > maxVisits
    THEN Mcts_mostVisitedLoop(Tail(childrenIds), Head(childrenIds),
                              s.nodes[Head(childrenIds)].visits, s)
    ELSE Mcts_mostVisitedLoop(Tail(childrenIds), bestChild, maxVisits, s)

Mcts_mostVisited(childrenIds, s) == Mcts_mostVisitedLoop(childrenIds, 0, -1, s)

Mcts_getBestAction(s) ==
    IF Len(s.nodes[s.rootNodeId].childrenIds) = 0
    THEN [s |-> s, err |-> "none", ret |-> "no_action"]
    ELSE LET bestChild == Mcts_mostVisited(s.nodes[s.rootNodeId].childrenIds, s)
         IN  [ s |-> [s EXCEPT !.stats.bestActionVisits = s.nodes[bestChild].visits,
                               !.stats.bestActionValue = s.nodes[bestChild].averageValue,
                               !.bestLeafNodeId = bestChild],
               err |-> "none",
               ret |-> s.nodes[bestChild].action ]

\* the values of the map getActionProbabilities returns, in thousandths
Mcts_getActionProbabilities(nodeId, s) ==
    IF nodeId \notin DOMAIN s.nodes THEN <<>>
    ELSE LET childrenIds == s.nodes[nodeId].childrenIds
             totalVisits == SumSeq([k \in 1..Len(childrenIds) |-> s.nodes[childrenIds[k]].visits])
         IN  IF Len(childrenIds) = 0 \/ totalVisits = 0 THEN <<>>
             ELSE [k \in 1..Len(childrenIds) |->
                      (s.nodes[childrenIds[k]].visits * 1000) \div totalVisits]

\* checkTermination without the confidence threshold test
Mcts_checkTermination_noConfidence(s, elapsed) ==
    LET criteria == s.terminationCriteria
    IN  IF criteria.maxSimulations # 0 /\ s.totalSimulations >= criteria.maxSimulations THEN TRUE
        ELSE IF criteria.timeLimit # 0 /\ elapsed >= criteria.timeLimit THEN TRUE
        ELSE criteria.minVisitsThreshold # 0 /\ s.stats.bestActionVisits # 0
                /\ s.stats.bestActionVisits >= criteria.minVisitsThreshold

\* elapsed is Date.now() minus the creation time, in milliseconds
Mcts_checkTermination(s, elapsed) ==
    LET criteria == s.terminationCriteria
        probabilities == Mcts_getActionProbabilities(s.rootNodeId, s)
        maxProb == IF probabilities = <<>> THEN NegInfinity ELSE MaxSeq(probabilities)
    IN  IF criteria.maxSimulations # 0 /\ s.totalSimulations >= criteria.maxSimulations THEN TRUE
        ELSE IF criteria.timeLimit # 0 /\ elapsed >= criteria.timeLimit THEN TRUE
        ELSE IF criteria.confidenceThreshold # 0 /\ maxProb >= criteria.confidenceThreshold THEN TRUE
        ELSE criteria.minVisitsThreshold # 0 /\ s.stats.bestActionVisits # 0
                /\ s.stats.bestActionVisits >= criteria.minVisitsThreshold

Mcts_updateStatistics(s) ==
    LET branching == SelectSeq(s.nodes, LAMBDA n : Len(n.childrenIds) > 0)
        totalBranches == SumSeq([k \in 1..Len(branching) |-> Len(branching[k].childrenIds)])
        effectiveBranches == Len(SelectSeq(s.nodes, LAMBDA n : n.visits * 100 > s.totalSimulations))
        rootChildren == s.nodes[s.rootNodeId].childrenIds
        exploredChildren == Cardinality({k \in 1..Len(rootChildren) : s.nodes[rootChildren[k]].visits > 0})
    IN  [s EXCEPT
            !.stats.averageBranchingFactor =
                IF Len(branching) > 0 THEN (totalBranches * 1000) \div Len(branching) ELSE 0,
            !.stats.effectiveBranchingFactor =
                IF s.stats.maxDepth # 0 THEN (effectiveBranches * 1000) \div s.stats.maxDepth
                ELSE IF effectiveBranches > 0 THEN Infinity ELSE NaN,
            !.stats.explorationRatio =
                IF Len(rootChildren) > 0 THEN (exploredChildren * 1000) \div Len(rootChildren) ELSE 0]

\* the end of runIteration, after backpropagation
Mcts_closeIteration(s, elapsed) ==
    IF Mcts_checkTermination(s, elapsed) THEN [s EXCEPT !.nextStepNeeded = FALSE] ELSE s

Mcts_countIteration(s) ==
    Mcts_updateStatistics([s EXCEPT !.totalSimulations = @ + 1, !.iteration = @ + 1])

\* simulation and backpropagation from the selected node
Mcts_playOut(selectedNode, s, rollout) ==
    Mcts_backpropagate(selectedNode, Mcts_simulate(selectedNode, s, rollout),
        [s EXCEPT !.currentPhase = "backpropagation",
                  !.currentSimulationPath = <<selectedNode>>])

\* an expansion phase that never expands the selected leaf
Mcts_expandLeaf_never(leafNode, s, random) == [s |-> s, err |-> "none", ret |-> leafNode]

\* the expansion phase: ret is the node the simulation starts from
Mcts_expandLeaf(leafNode, s, random) ==
    IF ~s.nodes[leafNode].isTerminal /\ Len(s.nodes[leafNode].untriedActions) > 0
    THEN Mcts_expandNode(leafNode, s, random)
    ELSE [s |-> s, err |-> "none", ret |-> leafNode]

Mcts_iterateFrom(sel, random, rollout, elapsed) ==
    Mcts_closeIteration(
        Mcts_countIteration(
            Mcts_playOut(Mcts_expandLeaf(sel.ret, sel.s, random).ret,
                         Mcts_expandLeaf(sel.ret, sel.s, random).s, rollout)),
        elapsed)

Mcts_runIteration(s, random, rollout, elapsed) ==
    Mcts_iterateFrom(Mcts_selectLeaf(s), random, rollout, elapsed)

\* the while loop of getBestPath; currentNodeId 0 is undefined
RECURSIVE Mcts_bestPathLoop(_, _)
Mcts_bestPathLoop(currentNodeId, s) ==
    IF currentNodeId = 0 THEN <<>>
    ELSE IF Len(s.nodes[currentNodeId].childrenIds) = 0 THEN <<currentNodeId>>
    ELSE <<currentNodeId>> \o
         Mcts_bestPathLoop(Mcts_mostVisited(s.nodes[currentNodeId].childrenIds, s), s)

Mcts_getBestPath(s) == Mcts_bestPathLoop(s.rootNodeId, s)

\* the thought texts of the records exported, in order
Mcts_exportToSequentialFormat(s) ==
    LET bestPath == Mcts_getBestPath(s)
    IN  [index \in 1..Len(bestPath) |-> s.nodes[bestPath[index]].content]

\* thoughts.forEach of importFromSequentialFormat, index counted from 1;
\* randoms[index - 1] is the draw of the expandNode for thoughts[index]
RECURSIVE Mcts_importLoop(_, _, _, _, _)
Mcts_importLoop(thoughts, index, currentNodeId, s, randoms) ==
    IF index > Len(thoughts) THEN [s |-> s, err |-> "none", ret |-> 0]
    ELSE IF index = 1
    THEN Mcts_importLoop(thoughts, 2, currentNodeId,
                         [s EXCEPT !.nodes[currentNodeId].content = <<thoughts[1]>>], randoms)
    ELSE LET r == Mcts_expandNode(currentNodeId, s, randoms[index - 1])
         IN  IF r.err # "none" THEN r
             ELSE Mcts_importLoop(thoughts, index + 1, r.ret,
                                  [r.s EXCEPT !.nodes[r.ret].content = <<thoughts[index]>>], randoms)

\* a thought record is modelled by its text
Mcts_importFromSequentialFormat(thoughts, randoms) ==
    Mcts_importLoop(thoughts, 1, 1, Mcts_initializeSession(1414, <<>>), randoms)

(***************************************************************************)
(* Tree engine: the calls a caller can make on a session                   *)
(***************************************************************************)
TreeStrategies == {"depth-first", "breadth-first", "best-first"}
RandomFactors == {0, 199}
Texts == {"essay", "note"}
ThoughtSeqs == UNION {[1..n -> Texts] : n \in 0..MaxThoughts}

\* the ids a caller may name: every node of the session and one absent id
TreeIds(s) == 1..(Len(s.nodes) + 1)

TreeConfigs ==
    { [maxDepth |-> d, maxBranchingFactor |-> b, defaultStrategy |-> st] :
        d \in {1, 2}, b \in {1, 2}, st \in TreeStrategies }

NoCall == [op |-> "init", nodeId |-> 0, err |-> "none", seq |-> 0]

GraphNoCall == [op |-> "init", err |-> "none"]

BeamNoCall == [op |-> "init", err |-> "none", seq |-> 0]

MctsNoCall ==
    [op |-> "init", nodeId |-> 0, value |-> 0, thoughts |-> <<>>, err |-> "none", ret |-> 0, seq |-> 0]

\* the pools of the unified reasoning tool before its first call
ToolNoPools == [tree |-> <<>>, graph |-> <<>>, beam |-> <<>>, mcts |-> <<>>, lastSessionId |-> 0]

ToolNoCall == [op |-> "init", pattern |-> "", sessionId |-> 0, err |-> "none", ret |-> 0, seq |-> 0]

TreeIdle == tree = Tree_initializeSession(<<>>) /\ treeCall = NoCall
GraphIdle == graph = Graph_initializeSession(<<>>) /\ graphCall = GraphNoCall
BeamIdle == beam = Beam_initializeSession(5, <<>>) /\ beamCall = BeamNoCall
MctsIdle == mcts = Mcts_initializeSession(1414, <<>>) /\ mctsCall = MctsNoCall
ToolIdle == pools = ToolNoPools /\ sessionThoughts = <<>> /\ toolCall = ToolNoCall

TreeInit ==
    /\ tree \in {Tree_initializeSession(c) : c \in TreeConfigs}
    /\ treeCall = NoCall
    /\ GraphIdle
    /\ BeamIdle
    /\ MctsIdle
    /\ ToolIdle

\* the model's node bound: expanding nodeId stays within MaxTreeNodes
TreeFits(nodeId, s) ==
    IF nodeId \notin DOMAIN s.nodes THEN TRUE
    ELSE IF s.nodes[nodeId].status # "active" THEN TRUE
    ELSE IF s.nodes[nodeId].depth >= s.config.maxDepth THEN TRUE
    ELSE Len(s.nodes) + Min(3, s.config.maxBranchingFactor - Len(s.nodes[nodeId].childrenIds)) <= MaxTreeNodes

\* the nodes selectNext draws a random number for
TreeSelectDraws(s) ==
    IF s.config.defaultStrategy = "best-first"
    THEN {n \in DOMAIN s.nodes : s.nodes[n].status = "active" /\ s.nodes[n].score = NoScore}
    ELSE {}

\* the ids of the children an expansion of nodeId creates
TreeNewIds(nodeId, s) ==
    IF nodeId \in DOMAIN s.nodes /\ s.nodes[nodeId].depth < s.config.maxDepth
    THEN (Len(s.nodes) + 1)..(Len(s.nodes) + Min(3, s.config.maxBranchingFactor - Len(s.nodes[nodeId].childrenIds)))
    ELSE {}

TreeCreateNode ==
    /\ treeCall.seq < MaxTreeCalls
    /\ Len(tree.nodes) < MaxTreeNodes
    /\ \E text \in Texts, parentId \in TreeIds(tree) :
         LET r == Tree_createNode(<<text>>, parentId, tree)
         IN  /\ tree' = r.s
             /\ treeCall' = [op |-> "createNode", nodeId |-> parentId, err |-> r.err, seq |-> treeCall.seq + 1]
             /\ UNCHANGED <<graphVars, beamVars, mctsVars, toolVars>>

TreeExpand ==
    /\ treeCall.seq < MaxTreeCalls
    /\ \E nodeId \in TreeIds(tree) :
        LET r == Tree_expand(nodeId, tree)
        IN  /\ TreeFits(nodeId, tree)
            /\ tree' = r.s
            /\ treeCall' = [op |-> "expand", nodeId |-> nodeId, err |-> r.err, seq |-> treeCall.seq + 1]
             /\ UNCHANGED <<graphVars, beamVars, mctsVars, toolVars>>

TreeEvaluate ==
    /\ treeCall.seq < MaxTreeCalls
    /\ \E nodeId \in TreeIds(tree), rf \in RandomFactors :
        LET r == Tree_evaluate(nodeId, rf, tree)
        IN  /\ tree' = r.s
            /\ treeCall' = [op |-> "evaluate", nodeId |-> nodeId, err |-> r.err, seq |-> treeCall.seq + 1]
             /\ UNCHANGED <<graphVars, beamVars, mctsVars, toolVars>>

TreePrune ==
    /\ treeCall.seq < MaxTreeCalls
    /\ \E nodeId \in TreeIds(tree) :
         LET r == Tree_prune(nodeId, tree)
         IN  /\ tree' = r.s
             /\ treeCall' = [op |-> "prune", nodeId |-> nodeId, err |-> r.err, seq |-> treeCall.seq + 1]
             /\ UNCHANGED <<graphVars, beamVars, mctsVars, toolVars>>

TreeIsSolution ==
    /\ treeCall.seq < MaxTreeCalls
    /\ \E nodeId \in TreeIds(tree) :
         \E rf \in (IF nodeId \in DOMAIN tree.nodes /\ tree.nodes[nodeId].score = NoScore
                    THEN RandomFactors ELSE {0}) :
            LET r == Tree_isSolution(nodeId, rf, tree)
            IN  /\ tree' = r.s
                /\ treeCall' = [op |-> "isSolution", nodeId |-> nodeId, err |-> r.err, seq |-> treeCall.seq + 1]
             /\ UNCHANGED <<graphVars, beamVars, mctsVars, toolVars>>

TreeRunIteration ==
    /\ treeCall.seq < MaxTreeCalls
    /\ \E r1 \in [TreeSelectDraws(tree) -> RandomFactors] :
         LET nodeId == Tree_selectNext(tree, r1).ret
         IN  /\ TreeFits(nodeId, tree)
             /\ \E r2 \in [TreeNewIds(nodeId, tree) -> RandomFactors] :
                  \E elapsed \in (IF tree.stats.totalTime = 0
                                  THEN {0, tree.config.timeLimit + 1} ELSE {0}) :
                     LET r == Tree_runIteration(tree, r1 @@ r2, elapsed)
                     IN  /\ tree' = r.s
                         /\ treeCall' = [op |-> "runIteration", nodeId |-> r.ret, err |-> r.err, seq |-> treeCall.seq + 1]
             /\ UNCHANGED <<graphVars, beamVars, mctsVars, toolVars>>

\* importFromSequentialFormat builds a session of its own: the first call
TreeImport ==
    /\ treeCall.op = "init"
    /\ \E thoughts \in ThoughtSeqs :
         LET r == Tree_importFromSequentialFormat(thoughts)
         IN  /\ r.err = "none"
             /\ tree' = r.s
             /\ treeCall' = [op |-> "import", nodeId |-> 0, err |-> "none", seq |-> treeCall.seq + 1]
             /\ UNCHANGED <<graphVars, beamVars, mctsVars, toolVars>>

\* getBestPath keeps the path found in the session
TreeGetBestPath ==
    /\ treeCall.seq < MaxTreeCalls
    /\ tree' = Tree_getBestPath(tree).s
    /\ treeCall' = [op |-> "getBestPath", nodeId |-> 0, err |-> "none", seq |-> treeCall.seq + 1]
    /\ UNCHANGED <<graphVars, beamVars, mctsVars, toolVars>>

TreeExport ==
    /\ treeCall.seq < MaxTreeCalls
    /\ tree' = Tree_exportToSequentialFormat(tree).s
    /\ treeCall' = [op |-> "export", nodeId |-> 0, err |-> "none", seq |-> treeCall.seq + 1]
    /\ UNCHANGED <<graphVars, beamVars, mctsVars, toolVars>>

TreeNext ==
    \/ TreeGetBestPath
    \/ TreeExport
    \/ TreeCreateNode
    \/ TreeExpand
    \/ TreeEvaluate
    \/ TreePrune
    \/ TreeIsSolution
    \/ TreeRunIteration
    \/ TreeImport

TreeSpec == TreeInit /\ [][TreeNext]_vars

\* the caller's loop: it calls runIteration again whatever the last call
\* returned or threw; seq counts the calls up to MaxTreeRuns
TreeCallRunIteration ==
    /\ treeCall.op # "calling"
    /\ treeCall' = [treeCall EXCEPT !.op = "calling", !.seq = Min(@ + 1, MaxTreeRuns)]
    /\ UNCHANGED <<tree, graphVars, beamVars, mctsVars, toolVars>>

\* the handler serves the call made
TreeIterate ==
    /\ treeCall.op = "calling"
    /\ \E r1 \in [TreeSelectDraws(tree) -> RandomFactors] :
         \E r2 \in [TreeNewIds(Tree_selectNext(tree, r1).ret, tree) -> RandomFactors] :
            \E elapsed \in (IF tree.stats.totalTime = 0
                            THEN {0, tree.config.timeLimit + 1} ELSE {0}) :
                /\ tree' = Tree_runIteration(tree, r1 @@ r2, elapsed).s
                /\ treeCall' = [treeCall EXCEPT
                                  !.op = "runIteration",
                                  !.nodeId = Tree_runIteration(tree, r1 @@ r2, elapsed).ret,
                                  !.err = Tree_runIteration(tree, r1 @@ r2, elapsed).err]
    /\ UNCHANGED <<graphVars, beamVars, mctsVars, toolVars>>

TreeRunNext ==
    \/ TreeCallRunIteration
    \/ TreeIterate

\* weak fairness of TreeIterate, which is enabled exactly while a call is
\* being served: the synchronous handler returns or throws
TreeIterateCompletes ==
    \/ []<>(treeCall.op # "calling")
    \/ []<><<TreeIterate>>_vars

\* the caller's loop goes on and every call made is served
TreeRunSpec ==
    /\ TreeInit
    /\ [][TreeRunNext]_vars
    /\ WF_vars(TreeCallRunIteration)
    /\ TreeIterateCompletes

\* sessions whose branching factor leaves room for one, two or three more
\* children
TreeWideInit ==
    /\ tree \in { Tree_initializeSession([maxDepth |-> d, maxBranchingFactor |-> b]) :
                     d \in {1, 2}, b \in {1, 3, 4} }
    /\ treeCall = NoCall
    /\ GraphIdle
    /\ BeamIdle
    /\ MctsIdle
    /\ ToolIdle

TreeWideSpec == TreeWideInit /\ [][TreeNext]_vars

\* sessions with the default maxDepth and a pruning threshold of 0.5 or 1
TreeThresholdInit ==
    /\ tree \in { Tree_initializeSession([pruningThreshold |-> t, maxBranchingFactor |-> b,
                                          defaultStrategy |-> st]) :
                     t \in {500, 1000}, b \in {1, 2}, st \in TreeStrategies }
    /\ treeCall = NoCall
    /\ GraphIdle
    /\ BeamIdle
    /\ MctsIdle
    /\ ToolIdle

TreeThresholdSpec == TreeThresholdInit /\ [][TreeNext]_vars

(***************************************************************************)
(* Graph engine: the calls a caller can make on a session                  *)
(***************************************************************************)
GraphConfigs ==
    { [allowCycles |-> c, autoPruneWeakEdges |-> p, maxNodes |-> 4, maxEdges |-> 2] :
        c \in BOOLEAN, p \in BOOLEAN }

GraphNodeInputs == {[content |-> <<"note">>, nodeType |-> "evidence", strength |-> 800]}
GraphEdgeInputs == {[edgeType |-> "supports", weight |-> 800], [edgeType |-> "contradicts", weight |-> 50]}

\* the ids a caller may name: every node of the session and one absent id
GraphIds(s) == (DOMAIN s.nodes) \cup {s.lastNodeId + 1}
GraphIdSeqs(s) == UNION {[1..n -> GraphIds(s)] : n \in 0..MaxMergeIds}

\* the model's bound on the uuids drawn
GraphFits(s) == s.lastNodeId <= MaxGraphNodeIds /\ s.lastEdgeId <= MaxGraphEdgeIds

GraphInit ==
    /\ graph \in {Graph_initializeSession(c) : c \in GraphConfigs}
    /\ graphCall = GraphNoCall
    /\ TreeIdle
    /\ BeamIdle
    /\ MctsIdle
    /\ ToolIdle

\* one call of addNode, connectNodes, mergeNodes: the session afterwards and
\* what the caller got
GraphAddCall(nodeData) ==
    LET r == Graph_addNode(nodeData, graph)
    IN  /\ GraphFits(r.s)
        /\ graph' = r.s
        /\ graphCall' = [op |-> "addNode", err |-> r.err]
        /\ UNCHANGED <<treeVars, beamVars, mctsVars, toolVars>>

GraphConnectCall(sourceId, targetId, e) ==
    LET r == Graph_connectNodes(sourceId, targetId, e.edgeType, e.weight, graph)
    IN  /\ GraphFits(r.s)
        /\ graph' = r.s
        /\ graphCall' = [op |-> "connectNodes", err |-> r.err]
        /\ UNCHANGED <<treeVars, beamVars, mctsVars, toolVars>>

GraphMergeCall(nodeIds) ==
    LET r == Graph_mergeNodes(nodeIds, graph)
    IN  /\ GraphFits(r.s)
        /\ graph' = r.s
        /\ graphCall' = [op |-> "mergeNodes", err |-> r.err]
        /\ UNCHANGED <<treeVars, beamVars, mctsVars, toolVars>>

GraphAddNode == \E nodeData \in GraphNodeInputs : GraphAddCall(nodeData)

GraphConnectNodes ==
    \E sourceId \in GraphIds(graph), targetId \in GraphIds(graph), e \in GraphEdgeInputs :
        GraphConnectCall(sourceId, targetId, e)

GraphMergeNodes == \E nodeIds \in GraphIdSeqs(graph) : GraphMergeCall(nodeIds)

\* importFromSequentialFormat builds a session of its own: the first call
GraphImport ==
    /\ graphCall.op = "init"
    /\ \E thoughts \in ThoughtSeqs :
          LET r == Graph_importFromSequentialFormat(thoughts)
          IN  /\ GraphFits(r.s)
              /\ graph' = r.s
              /\ graphCall' = [op |-> "importFromSequentialFormat", err |-> r.err]
              /\ UNCHANGED <<treeVars, beamVars, mctsVars, toolVars>>

GraphNext ==
    \/ GraphAddNode
    \/ GraphConnectNodes
    \/ GraphMergeNodes

GraphSpec == GraphInit /\ [][GraphNext]_vars

\* sessions built by an import, then grown by addNode and connectNodes
GraphImportNext ==
    \/ GraphImport
    \/ GraphAddNode
    \/ GraphConnectNodes

GraphImportSpec == GraphInit /\ [][GraphImportNext]_vars

\* sessions with room for three nodes, three edges between them and one
\* mergeNodes call, which draws one node id and up to six edge ids
GraphWideConfigs ==
    { [allowCycles |-> c, autoPruneWeakEdges |-> FALSE, maxNodes |-> 8, maxEdges |-> m] :
        c \in BOOLEAN, m \in {5, 8} }

GraphWideInit ==
    /\ graph \in {Graph_initializeSession(c) : c \in GraphWideConfigs}
    /\ graphCall = GraphNoCall
    /\ TreeIdle
    /\ BeamIdle
    /\ MctsIdle
    /\ ToolIdle

GraphWideAddNode ==
    /\ graphCall.op # "mergeNodes"
    /\ graph.lastNodeId < MaxWideNodes
    /\ \E nodeData \in GraphNodeInputs :
          /\ graph' = Graph_addNode(nodeData, graph).s
          /\ graphCall' = [op |-> "addNode", err |-> Graph_addNode(nodeData, graph).err]
    /\ UNCHANGED <<treeVars, beamVars, mctsVars, toolVars>>

GraphWideConnectNodes ==
    /\ graphCall.op # "mergeNodes"
    /\ graph.lastEdgeId < MaxWideEdges
    /\ \E sourceId \in DOMAIN graph.nodes, targetId \in DOMAIN graph.nodes, e \in GraphEdgeInputs :
          /\ graph' = Graph_connectNodes(sourceId, targetId, e.edgeType, e.weight, graph).s
          /\ graphCall' = [op |-> "connectNodes",
                           err |-> Graph_connectNodes(sourceId, targetId, e.edgeType, e.weight, graph).err]
    /\ UNCHANGED <<treeVars, beamVars, mctsVars, toolVars>>

GraphWideMergeNodes ==
    /\ graphCall.op # "mergeNodes"
    /\ \E nodeIds \in GraphIdSeqs(graph) :
          /\ graph' = Graph_mergeNodes(nodeIds, graph).s
          /\ graphCall' = [op |-> "mergeNodes", err |-> Graph_mergeNodes(nodeIds, graph).err]
    /\ UNCHANGED <<treeVars, beamVars, mctsVars, toolVars>>

GraphWideNext ==
    \/ GraphWideAddNode
    \/ GraphWideConnectNodes
    \/ GraphWideMergeNodes

GraphWideSpec == GraphWideInit /\ [][GraphWideNext]_vars

\* sessions for calculateCentrality: up to MaxCentralityNodes nodes joined by
\* up to MaxCentralityEdges edges of weight 1, 0.5 or 0
GraphWeights == {1000, 500, 0}

GraphCentralityInit ==
    /\ graph = Graph_initializeSession(<<>>)
    /\ graphCall = GraphNoCall
    /\ TreeIdle
    /\ BeamIdle
    /\ MctsIdle
    /\ ToolIdle

GraphCentralityAddNode ==
    /\ graph.lastNodeId < MaxCentralityNodes
    /\ graph.lastEdgeId = 0
    /\ \E nodeData \in GraphNodeInputs :
          /\ graph' = Graph_addNode(nodeData, graph).s
          /\ graphCall' = [op |-> "addNode", err |-> Graph_addNode(nodeData, graph).err]
    /\ UNCHANGED <<treeVars, beamVars, mctsVars, toolVars>>

GraphCentralityConnectNodes ==
    /\ graph.lastEdgeId < MaxCentralityEdges
    /\ graph.analysisMetrics = <<>>
    /\ \E sourceId \in DOMAIN graph.nodes, targetId \in DOMAIN graph.nodes, weight \in GraphWeights :
          /\ graph' = Graph_connectNodes(sourceId, targetId, "supports", weight, graph).s
          /\ graphCall' = [op |-> "connectNodes",
                           err |-> Graph_connectNodes(sourceId, targetId, "supports", weight, graph).err]
    /\ UNCHANGED <<treeVars, beamVars, mctsVars, toolVars>>

GraphCalculateCentrality ==
    /\ graph' = Graph_calculateCentrality(graph).s
    /\ graphCall' = [op |-> "calculateCentrality", err |-> "none"]
    /\ UNCHANGED <<treeVars, beamVars, mctsVars, toolVars>>

GraphCentralityNext ==
    \/ GraphCentralityAddNode
    \/ GraphCentralityConnectNodes
    \/ GraphCalculateCentrality

GraphCentralitySpec == GraphCentralityInit /\ [][GraphCentralityNext]_vars

\* sessions of up to three nodes and three edges that the caller builds and
\* then hands to one of the read-only analyses findContradictions and
\* findPaths; graphCall.ret holds what the analysis returned
PathLimits == {1, 2, 10}
GraphAnalyses == {"findContradictions", "findPaths"}

GraphAnalysisInit ==
    /\ graph \in {Graph_initializeSession([allowCycles |-> c]) : c \in BOOLEAN}
    /\ graphCall = GraphNoCall
    /\ TreeIdle
    /\ BeamIdle
    /\ MctsIdle
    /\ ToolIdle

GraphAnalysisAddNode ==
    /\ graphCall.op \notin GraphAnalyses
    /\ graph.lastNodeId < MaxAnalysisNodes
    /\ \E nodeData \in GraphNodeInputs :
          /\ graph' = Graph_addNode(nodeData, graph).s
          /\ graphCall' = [op |-> "addNode", err |-> Graph_addNode(nodeData, graph).err]
    /\ UNCHANGED <<treeVars, beamVars, mctsVars, toolVars>>

GraphAnalysisConnectNodes ==
    /\ graphCall.op \notin GraphAnalyses
    /\ graph.lastEdgeId < MaxAnalysisEdges
    /\ \E sourceId \in DOMAIN graph.nodes, targetId \in DOMAIN graph.nodes, e \in GraphEdgeInputs :
          /\ graph' = Graph_connectNodes(sourceId, targetId, e.edgeType, e.weight, graph).s
          /\ graphCall' = [op |-> "connectNodes",
                           err |-> Graph_connectNodes(sourceId, targetId, e.edgeType, e.weight, graph).err]
    /\ UNCHANGED <<treeVars, beamVars, mctsVars, toolVars>>

GraphFindContradictions ==
    /\ graphCall.op \notin GraphAnalyses
    /\ graph' = graph
    /\ graphCall' = [op |-> "findContradictions", err |-> "none",
                     ret |-> Graph_findContradictions(graph)]
    /\ UNCHANGED <<treeVars, beamVars, mctsVars, toolVars>>

GraphFindPaths ==
    /\ graphCall.op \notin GraphAnalyses
    /\ \E startId \in GraphIds(graph), endId \in GraphIds(graph), maxPaths \in PathLimits :
          LET r == Graph_findPaths(startId, endId, graph, maxPaths)
          IN  /\ graph' = r.s
              /\ graphCall' = [op |-> "findPaths", err |-> r.err, startId |-> startId,
                               endId |-> endId, maxPaths |-> maxPaths, ret |-> r.ret]
    /\ UNCHANGED <<treeVars, beamVars, mctsVars, toolVars>>

GraphAnalysisNext ==
    \/ GraphAnalysisAddNode
    \/ GraphAnalysisConnectNodes
    \/ GraphFindContradictions
    \/ GraphFindPaths

GraphAnalysisSpec == GraphAnalysisInit /\ [][GraphAnalysisNext]_vars

(***************************************************************************)
(* Beam engine: the calls a caller can make on a session                   *)
(***************************************************************************)
BeamWidths == {1, 2}
RandomScores == {200, 900}
PruningStrategies == {"absolute", "relative", "adaptive"}

BeamConfigs ==
    { [branchingFactor |-> b, pruningStrategy |-> p, keepPrunedPaths |-> k, mergeThreshold |-> m] :
        b \in {1, 2}, p \in PruningStrategies, k \in BOOLEAN, m \in {300, 800} }

\* the ids a caller may name: every path of the session and one absent id
BeamIds(s) == (DOMAIN s.paths) \cup {s.lastPathId + 1}
BeamIdSeqs(s) == UNION {[1..n -> BeamIds(s)] : n \in 0..MaxMergeIds}
\* longer lists of ids of existing paths
BeamLongIdSeqs(s) == [1..MaxBeamMergeIds -> DOMAIN s.paths]

\* the number of nodes the next generation of the session has
BeamNewNodes(s) ==
    Cardinality({i \in 1..Len(s.activePaths) :
                    /\ s.activePaths[i] \in DOMAIN s.paths
                    /\ s.paths[s.activePaths[i]].status = "active"}) * s.config.branchingFactor

\* the model's bound on the path uuids drawn
BeamFits(s) == s.lastPathId <= MaxBeamPaths

BeamInit ==
    /\ beam \in {Beam_initializeSession(w, c) : w \in BeamWidths, c \in BeamConfigs}
    /\ beamCall = BeamNoCall
    /\ TreeIdle
    /\ GraphIdle
    /\ MctsIdle
    /\ ToolIdle

\* one call of a handler method: the session afterwards and what the caller got
BeamCall(op, r) ==
    /\ beamCall.seq < MaxBeamCalls
    /\ BeamFits(r.s)
    /\ beam' = r.s
    /\ beamCall' = [op |-> op, err |-> r.err, seq |-> beamCall.seq + 1]
    /\ UNCHANGED <<treeVars, graphVars, mctsVars, toolVars>>

BeamGenerateNextGeneration ==
    /\ beam.lastPathId + BeamNewNodes(beam) <= MaxBeamPaths
    /\ \E localScores \in [1..BeamNewNodes(beam) -> RandomScores] :
          BeamCall("generateNextGeneration", Beam_generateNextGeneration(beam, localScores))

BeamEvaluatePaths == BeamCall("evaluatePaths", Beam_evaluatePaths(beam))

BeamPrunePaths == BeamCall("prunePaths", Beam_prunePaths(beam))

BeamMergePaths == \E pathIds \in BeamIdSeqs(beam) : BeamCall("mergePaths", Beam_mergePaths(pathIds, beam))

BeamRunIteration ==
    /\ beam.lastPathId + BeamNewNodes(beam) <= MaxBeamPaths
    /\ \E localScores \in [1..BeamNewNodes(beam) -> RandomScores] :
          BeamCall("runIteration", Beam_runIteration(beam, localScores))

BeamImport ==
    /\ beamCall.op = "init"
    /\ \E thoughts \in ThoughtSeqs :
          BeamCall("importFromSequentialFormat", Beam_importFromSequentialFormat(thoughts))

BeamNext ==
    \/ BeamGenerateNextGeneration
    \/ BeamEvaluatePaths
    \/ BeamPrunePaths
    \/ BeamMergePaths
    \/ BeamRunIteration
    \/ BeamImport

BeamSpec == BeamInit /\ [][BeamNext]_vars

\* sessions for the calls of mergePaths with longer lists of ids
BeamMergeInit ==
    /\ beam \in {Beam_initializeSession(2, [branchingFactor |-> b, keepPrunedPaths |-> k]) :
                    b \in {1, 2}, k \in BOOLEAN}
    /\ beamCall = BeamNoCall
    /\ TreeIdle
    /\ GraphIdle
    /\ MctsIdle
    /\ ToolIdle

BeamMergeLongList ==
    \E pathIds \in BeamLongIdSeqs(beam) : BeamCall("mergePaths", Beam_mergePaths(pathIds, beam))

BeamMergeNext ==
    \/ BeamNext
    \/ BeamMergeLongList

BeamMergeSpec == BeamMergeInit /\ [][BeamMergeNext]_vars

\* sessions reached from initializeSession by the five calls that work on
\* paths, without an import
BeamCoreNext ==
    \/ BeamGenerateNextGeneration
    \/ BeamEvaluatePaths
    \/ BeamPrunePaths
    \/ BeamMergePaths
    \/ BeamRunIteration

BeamCoreSpec == BeamInit /\ [][BeamCoreNext]_vars

\* chains of runIteration calls on a freshly initialized session: the
\* session of initializeSession (maxGenerations 10, beam of one path that
\* branches once), and sessions whose caller has set
\* session.convergenceCriteria.maxGenerations to G, with the other three
\* criteria as initializeSession leaves them or switched off (0)
BeamGenerations == {1, 2, 3}

BeamRunCriteria ==
    { [Beam_defaultConvergenceCriteria EXCEPT !.maxGenerations = g] : g \in BeamGenerations }
    \cup { [Beam_defaultConvergenceCriteria EXCEPT !.maxGenerations = g,
                                                  !.targetScore = 0,
                                                  !.consensusThreshold = 0,
                                                  !.minScoreImprovement = 0] :
            g \in BeamGenerations \cup {Beam_defaultConvergenceCriteria.maxGenerations} }

BeamRunInit ==
    /\ beam \in {Beam_initializeSession(1, [branchingFactor |-> 1, pruningStrategy |-> p]) :
                    p \in PruningStrategies}
          \cup {[Beam_initializeSession(w, [branchingFactor |-> b, pruningStrategy |-> p])
                     EXCEPT !.convergenceCriteria = c] :
                    w \in BeamWidths, b \in {1, 2}, p \in PruningStrategies,
                    c \in {x \in BeamRunCriteria : x.maxGenerations \in BeamGenerations}}
          \cup {[Beam_initializeSession(1, [branchingFactor |-> 1])
                     EXCEPT !.convergenceCriteria = c] :
                    c \in {x \in BeamRunCriteria : x.maxGenerations \notin BeamGenerations}}
    /\ beamCall = BeamNoCall
    /\ TreeIdle
    /\ GraphIdle
    /\ MctsIdle
    /\ ToolIdle

\* the next runIteration of the chain; the caller stops issuing calls once
\* nextStepNeeded is false or after MaxBeamRuns calls
BeamRunNextIteration ==
    /\ beam.nextStepNeeded
    /\ beam.iteration < MaxBeamRuns
    /\ \E localScores \in [1..BeamNewNodes(beam) -> RandomScores] :
          LET r == Beam_runIteration(beam, localScores)
          IN  /\ beam' = r.s
              /\ beamCall' = [op |-> "runIteration", err |-> r.err, seq |-> Min(beamCall.seq + 1, MaxBeamCalls)]
    /\ UNCHANGED <<treeVars, graphVars, mctsVars, toolVars>>

BeamRunSpec == BeamRunInit /\ [][BeamRunNextIteration]_vars

(***************************************************************************)
(* MCTS engine: the calls a caller can make on a session                   *)
(***************************************************************************)
UcbVariants == {"ucb1", "ucb1-tuned", "puct"}
RandomDraws == {0, 999}
RolloutValues == {200, 700}
ElapsedTimes == {0, 60000}

MctsThoughtSeqs == UNION {[1..n -> Texts] : n \in 0..MaxMctsThoughts}

MctsConfigs == {[ucbVariant |-> v, useRAVE |-> r] : v \in UcbVariants, r \in BOOLEAN}

\* the ids a caller may name: every node of the session and one absent id
MctsIds(s) == 1..(Len(s.nodes) + 1)

MctsInit ==
    /\ mcts \in {Mcts_initializeSession(1414, c) : c \in MctsConfigs}
    /\ mctsCall = MctsNoCall
    /\ TreeIdle
    /\ GraphIdle
    /\ BeamIdle
    /\ ToolIdle

\* one call within the budget of calls: r is what the handler returned
MctsCall(op, nodeId, value, r, budget) ==
    /\ mctsCall.seq < budget
    /\ mcts' = r.s
    /\ mctsCall' = [op |-> op, nodeId |-> nodeId, value |-> value, thoughts |-> <<>>,
                    err |-> r.err, ret |-> r.ret, seq |-> mctsCall.seq + 1]
    /\ UNCHANGED <<treeVars, graphVars, beamVars, toolVars>>

MctsSelectLeaf == MctsCall("selectLeaf", 0, 0, Mcts_selectLeaf(mcts), MaxMctsCalls)

MctsCalculateUCB ==
    \E nodeId \in MctsIds(mcts), parentVisits \in 0..1 :
        MctsCall("calculateUCB", nodeId, parentVisits,
                 Mcts_calculateUCB(nodeId, parentVisits, mcts), MaxMctsCalls)

MctsExpandNode ==
    \E nodeId \in MctsIds(mcts), random \in RandomDraws :
        MctsCall("expandNode", nodeId, random, Mcts_expandNode(nodeId, mcts, random), MaxMctsCalls)

MctsBackpropagate ==
    \E leafNodeId \in MctsIds(mcts), value \in RolloutValues :
        MctsCall("backpropagate", leafNodeId, value,
                 [s |-> Mcts_backpropagate(leafNodeId, value, mcts), err |-> "none", ret |-> 0],
                 MaxMctsCalls)

MctsGetBestAction ==
    MctsCall("getBestAction", 0, 0, [Mcts_getBestAction(mcts) EXCEPT !.ret = 0], MaxMctsCalls)

MctsIterate(budget) ==
    \E random \in RandomDraws, rollout \in RolloutValues, elapsed \in ElapsedTimes :
        MctsCall("runIteration", 0, 0,
                 [s |-> Mcts_runIteration(mcts, random, rollout, elapsed), err |-> "none", ret |-> 0],
                 budget)

MctsRunIteration == MctsIterate(MaxMctsCalls)

\* importFromSequentialFormat builds a new session
MctsImport ==
    \E thoughts \in MctsThoughtSeqs, randoms \in [1..(MaxMctsThoughts - 1) -> RandomDraws] :
        /\ mctsCall.seq < MaxMctsCalls
        /\ mcts' = Mcts_importFromSequentialFormat(thoughts, randoms).s
        /\ mctsCall' = [op |-> "import", nodeId |-> 0, value |-> 0, thoughts |-> thoughts,
                        err |-> Mcts_importFromSequentialFormat(thoughts, randoms).err,
                        ret |-> 0, seq |-> mctsCall.seq + 1]
        /\ UNCHANGED <<treeVars, graphVars, beamVars, toolVars>>

MctsNext ==
    \/ MctsSelectLeaf
    \/ MctsCalculateUCB
    \/ MctsExpandNode
    \/ MctsBackpropagate
    \/ MctsGetBestAction
    \/ MctsRunIteration
    \/ MctsImport

MctsSpec == MctsInit /\ [][MctsNext]_vars

\* a session on which only runIteration is called
MctsLongIteration == MctsIterate(MaxMctsRuns)

MctsRunSpec == MctsInit /\ [][MctsLongIteration]_vars

\* expandNode on the root, times times, each drawing the first untried action
RECURSIVE Mcts_expandRoot(_, _)
Mcts_expandRoot(s, times) ==
    IF times = 0 THEN s ELSE Mcts_expandRoot(Mcts_expandNode(s.rootNodeId, s, 0).s, times - 1)

\* backpropagate(id, 500) for the ids of leafNodeIds, in order
RECURSIVE Mcts_visitAll(_, _)
Mcts_visitAll(leafNodeIds, s) ==
    IF leafNodeIds = <<>> THEN s
    ELSE Mcts_visitAll(Tail(leafNodeIds), Mcts_backpropagate(Head(leafNodeIds), 500, s))

\* sessions whose root has tried every action, after rollouts from some of
\* its children
MctsSelectInit ==
    /\ mcts \in { Mcts_visitAll(SortedIds(visited),
                                Mcts_expandRoot(Mcts_initializeSession(1414, c), 5)) :
                    c \in MctsConfigs, visited \in SUBSET (2..6) }
    /\ mctsCall = MctsNoCall
    /\ TreeIdle
    /\ GraphIdle
    /\ BeamIdle
    /\ ToolIdle

MctsSelectNext ==
    \/ MctsSelectLeaf
    \/ MctsRunIteration

MctsSelectSpec == MctsSelectInit /\ [][MctsSelectNext]_vars

\* expandNode on the node created last, times times, each drawing the first
\* untried action: a chain below the root
RECURSIVE Mcts_expandChain(_, _)
Mcts_expandChain(s, times) ==
    IF times = 0 THEN s ELSE Mcts_expandChain(Mcts_expandNode(Len(s.nodes), s, 0).s, times - 1)

\* sessions whose caller has expanded the root up to five times or has built
\* a chain of up to MaxMctsChain nodes below it, and goes on to call
\* expandNode on any node with any draw
MctsExpandInit ==
    /\ mcts \in { Mcts_expandRoot(Mcts_initializeSession(1414, <<>>), k) : k \in 0..5 }
          \cup { Mcts_expandChain(Mcts_initializeSession(1414, <<>>), d) : d \in 1..MaxMctsChain }
    /\ mctsCall = MctsNoCall
    /\ TreeIdle
    /\ GraphIdle
    /\ BeamIdle
    /\ ToolIdle

MctsExpandAgain ==
    \E nodeId \in MctsIds(mcts), random \in RandomDraws :
        MctsCall("expandNode", nodeId, random, Mcts_expandNode(nodeId, mcts, random), MaxMctsExpands)

MctsExpandSpec == MctsExpandInit /\ [][MctsExpandAgain]_vars

\* fresh sessions with the termination criteria of initializeSession, and
\* sessions whose caller has switched the confidence threshold off or
\* lowered maxSimulations or minVisitsThreshold in session.terminationCriteria
MctsCriteria ==
    { [Mcts_defaultTerminationCriteria EXCEPT !.confidenceThreshold = c,
                                             !.maxSimulations = m,
                                             !.minVisitsThreshold = v] :
        c \in {Mcts_defaultTerminationCriteria.confidenceThreshold, 0},
        m \in {Mcts_defaultTerminationCriteria.maxSimulations, 3},
        v \in {Mcts_defaultTerminationCriteria.minVisitsThreshold, 1} }

MctsStopInit ==
    /\ mcts \in { [Mcts_initializeSession(1414, [ucbVariant |-> v]) EXCEPT !.terminationCriteria = c] :
                    v \in UcbVariants, c \in MctsCriteria }
    /\ mctsCall = MctsNoCall
    /\ TreeIdle
    /\ GraphIdle
    /\ BeamIdle
    /\ ToolIdle

\* runIteration; mctsCall.value holds the time since the session's creation
\* that checkTermination read from the clock
MctsTimedIteration ==
    /\ mctsCall.seq < MaxMctsStopCalls
    /\ \E random \in RandomDraws, rollout \in RolloutValues, elapsed \in ElapsedTimes :
          /\ mcts' = Mcts_runIteration(mcts, random, rollout, elapsed)
          /\ mctsCall' = [op |-> "runIteration", nodeId |-> 0, value |-> elapsed, thoughts |-> <<>>,
                          err |-> "none", ret |-> 0, seq |-> mctsCall.seq + 1]
    /\ UNCHANGED <<treeVars, graphVars, beamVars, toolVars>>

MctsStopGetBestAction ==
    MctsCall("getBestAction", 0, 0, [Mcts_getBestAction(mcts) EXCEPT !.ret = 0], MaxMctsStopCalls)

MctsStopNext ==
    \/ MctsTimedIteration
    \/ MctsStopGetBestAction

MctsStopSpec == MctsStopInit /\ [][MctsStopNext]_vars

(***************************************************************************)
(* Unified reasoning tool: handleAdvancedPattern                           *)
(* pools holds the tool's four pools, each a function from the session ids *)
(* stored to the pattern sessions, and lastSessionId, the number of        *)
(* session uuids drawn so far; sessionThoughts is the caller's list of     *)
(* sequential thoughts, each modelled by its text.  Of the operations      *)
(* 'create' and 'iterate' are modelled, with the tree parameters given.    *)
(***************************************************************************)
ToolPatterns == {"tree", "graph", "beam", "mcts"}
ToolOperations == {"create", "iterate"}
ToolParameters == [maxDepth |-> 10, pruningThreshold |-> 200, beamWidth |-> 2,
                   explorationConstant |-> 1414]

\* the random numbers one runIteration draws: the same number at each draw
ToolDraws(pattern) ==
    CASE pattern = "tree" -> {[random |-> r, rollout |-> 0] : r \in RandomFactors}
      [] pattern = "beam" -> {[random |-> r, rollout |-> 0] : r \in RandomScores}
      [] pattern = "mcts" -> {[random |-> r, rollout |-> v] : r \in RandomDraws, v \in RolloutValues}
      [] OTHER -> {[random |-> 0, rollout |-> 0]}

\* handlers.<pattern>.initializeSession(...)
Tool_initializeSession(pattern, parameters) ==
    CASE pattern = "tree" -> Tree_initializeSession([maxDepth |-> parameters.maxDepth,
                                                     pruningThreshold |-> parameters.pruningThreshold])
      [] pattern = "graph" -> Graph_initializeSession(<<>>)
      [] pattern = "beam" -> Beam_initializeSession(parameters.beamWidth, <<>>)
      [] OTHER -> Mcts_initializeSession(parameters.explorationConstant, <<>>)

\* handlers.<pattern>.importFromSequentialFormat(seq)
Tool_importFromSequentialFormat(pattern, seq, draw) ==
    CASE pattern = "tree" -> Tree_importFromSequentialFormat(seq)
      [] pattern = "graph" -> Graph_importFromSequentialFormat(seq)
      [] pattern = "beam" -> Beam_importFromSequentialFormat(seq)
      [] OTHER -> Mcts_importFromSequentialFormat(seq, [k \in 1..Len(seq) |-> draw.random])

\* the switch that executes the operation 'iterate'; the graph case has no
\* branch for it
Tool_runIteration(pattern, s, draw) ==
    CASE pattern = "tree" ->
            Tree_runIteration(s, [n \in 1..(Len(s.nodes) + 3) |-> draw.random], 0)
      [] pattern = "beam" ->
            Beam_runIteration(s, [k \in 1..BeamNewNodes(s) |-> draw.random])
      [] pattern = "mcts" ->
            [s |-> Mcts_runIteration(s, draw.random, draw.rollout, 0), err |-> "none", ret |-> 0]
      [] OTHER -> [s |-> s, err |-> "none", ret |-> 0]

\* the switch that builds the export and the summary: the session afterwards
Tool_export(pattern, s) ==
    CASE pattern = "tree" ->
            CHOOSE t \in {Tree_getBestPath(e.s).s : e \in {Tree_exportToSequentialFormat(s)}} : TRUE
      [] pattern = "mcts" -> Mcts_getBestAction(s).s
      [] OTHER -> s

\* pool.set(patternSession.sessionId, patternSession) for a session a
\* handler has just built: ret is the uuid of the session
Tool_store(pattern, s, ps) ==
    [ s |-> [ps EXCEPT ![pattern] = ((ps.lastSessionId + 1) :> s) @@ @,
                       !.lastSessionId = @ + 1],
      ret |-> ps.lastSessionId + 1 ]

\* let patternSession = pool.get(nowId); if (!patternSession || operation
\* === 'create') { ... initializeSession ...; pool.set(...) }
Tool_resume(pattern, operation, sessionId, parameters, ps) ==
    IF sessionId \notin DOMAIN ps[pattern] \/ operation = "create"
    THEN Tool_store(pattern, Tool_initializeSession(pattern, parameters), ps)
    ELSE [s |-> ps, ret |-> sessionId]

\* the import of the caller's sequential chain: cur is what Tool_resume left
Tool_import(pattern, operation, seq, draw, cur) ==
    IF operation = "iterate" /\ Len(seq) > 0
    THEN
        CHOOSE r \in { IF imported.err # "none"
                       THEN [s |-> cur.s, err |-> imported.err, ret |-> 0]
                       ELSE [ s |-> Tool_store(pattern, imported.s, cur.s).s,
                              err |-> "none",
                              ret |-> Tool_store(pattern, imported.s, cur.s).ret ] :
                       imported \in {Tool_importFromSequentialFormat(pattern, seq, draw)} } : TRUE
    ELSE [s |-> cur.s, err |-> "none", ret |-> cur.ret]

\* the operation and the export on the session cur.ret, which the handlers
\* change in place; ret is the sessionId of the answer, 0 when the answer is
\* an error
Tool_execute(pattern, operation, draw, cur) ==
    IF cur.err # "none" THEN cur
    ELSE
        CHOOSE r \in { IF ran.err # "none"
                       THEN [s |-> [cur.s EXCEPT ![pattern][cur.ret] = ran.s], err |-> ran.err, ret |-> 0]
                       ELSE [ s |-> [cur.s EXCEPT ![pattern][cur.ret] = Tool_export(pattern, ran.s)],
                              err |-> "none",
                              ret |-> cur.ret ] :
                       ran \in { IF operation = "iterate"
                                 THEN Tool_runIteration(pattern, cur.s[pattern][cur.ret], draw)
                                 ELSE [s |-> cur.s[pattern][cur.ret], err |-> "none", ret |-> 0] } } : TRUE

Tool_handleAdvancedPattern(pattern, operation, sessionId, parameters, seq, draw, ps) ==
    LET resumed == {Tool_resume(pattern, operation, sessionId, parameters, ps)}
        imported == {Tool_import(pattern, operation, seq, draw, cur) : cur \in resumed}
    IN  CHOOSE r \in {Tool_execute(pattern, operation, draw, cur) : cur \in imported} : TRUE

\* the session ids a caller may name: 0 for none given, and the ids of the
\* sessions stored for the pattern
ToolIds(pattern) == {0} \cup DOMAIN pools[pattern]

ToolInit ==
    /\ ToolIdle
    /\ TreeIdle
    /\ GraphIdle
    /\ BeamIdle
    /\ MctsIdle

\* one call of the unified reasoning tool with an advanced pattern
ToolCallAdvancedPattern ==
    /\ toolCall.seq < MaxToolCalls
    /\ \E pattern \in ToolPatterns, operation \in ToolOperations :
          \E sessionId \in ToolIds(pattern), draw \in ToolDraws(pattern) :
              \E r \in {Tool_handleAdvancedPattern(pattern, operation, sessionId, ToolParameters,
                                                    sessionThoughts, draw, pools)} :
                  /\ pools' = r.s
                  /\ toolCall' = [op |-> operation, pattern |-> pattern, sessionId |-> sessionId,
                                  err |-> r.err, ret |-> r.ret, seq |-> toolCall.seq + 1]
    /\ UNCHANGED <<sessionThoughts, treeVars, graphVars, beamVars, mctsVars>>

\* the sequential thinking tool adds a thought to the caller's list
ToolAddThought ==
    /\ Len(sessionThoughts) < MaxToolThoughts
    /\ \E text \in Texts : sessionThoughts' = Append(sessionThoughts, text)
    /\ UNCHANGED <<pools, toolCall, treeVars, graphVars, beamVars, mctsVars>>

ToolNext ==
    \/ ToolCallAdvancedPattern
    \/ ToolAddThought

ToolSpec == ToolInit /\ [][ToolNext]_vars

(***************************************************************************)
(* Tree engine: properties                                                 *)
(***************************************************************************)
TreeNodeIds == DOMAIN tree.nodes

\* the proper ancestors of node n, by parent links
RECURSIVE TreeAncestors(_)
TreeAncestors(n) ==
    IF tree.nodes[n].parentId = 0 THEN {}
    ELSE {tree.nodes[n].parentId} \cup TreeAncestors(tree.nodes[n].parentId)

\* C1: the root has depth 0 and every other node has the depth of its
\* parent plus one, in every state reachable by createNode, expand, evaluate,
\* prune, isSolution, importFromSequentialFormat and runIteration.
Thm_C1_DepthIsParentDepthPlusOne ==
    \A n \in TreeNodeIds :
        IF n = tree.rootNodeId
        THEN tree.nodes[n].depth = 0 /\ tree.nodes[n].parentId = 0
        ELSE /\ tree.nodes[n].parentId \in TreeNodeIds
             /\ tree.nodes[n].depth = tree.nodes[tree.nodes[n].parentId].depth + 1

\* a grandchild of the root exists after a runIteration created it
Wit_C1_GrandchildCreated ==
    /\ treeCall.op = "runIteration"
    /\ \E n \in TreeNodeIds :
         /\ tree.nodes[n].depth = 2
         /\ tree.nodes[n].content # <<"essay">> /\ tree.nodes[n].content # <<"note">>

\* C2: every descendant of a pruned node is pruned (the claim as stated; the
\* handler breaks it: createNode adds an active child to a pruned parent and
\* isSolution turns a pruned node into a solution).
Cex_C2_DescendantsOfPrunedArePruned ==
    \A n \in TreeNodeIds :
        (\E a \in TreeAncestors(n) : tree.nodes[a].status = "pruned")
            => tree.nodes[n].status = "pruned"

\* C3: a pruned node stays pruned whatever is called next (the claim as
\* stated; isSolution overwrites the status of a pruned node whose score is
\* above 0.8).
Cex_C3_PrunedIsIrreversible ==
    [][\A n \in TreeNodeIds :
          tree.nodes[n].status = "pruned" => tree'.nodes[n].status = "pruned"]_vars

\* C4: no node has more children than the session's maxBranchingFactor.
Thm_C4_ChildrenWithinBranchingFactor ==
    \A n \in TreeNodeIds :
        Len(tree.nodes[n].childrenIds) <= tree.config.maxBranchingFactor

\* createNode was refused on a parent that has maxBranchingFactor children
Wit_C4_BranchingRefused ==
    /\ treeCall.op = "createNode"
    /\ treeCall.err = "Maximum branching factor reached"
    /\ Len(tree.nodes[treeCall.nodeId].childrenIds) = tree.config.maxBranchingFactor

\* C5: createNode throws when the parent's depth is >= maxDepth or the parent
\* has maxBranchingFactor children, expand throws on an active node at
\* maxDepth, and a createNode or expand call that throws leaves the whole
\* session (nodes, statuses, counters) as it was.
Thm_C5_RejectedCallsChangeNothing ==
    [][LET p == treeCall'.nodeId IN
       /\ (treeCall'.op = "createNode" /\ p \in TreeNodeIds
             /\ tree.nodes[p].depth >= tree.config.maxDepth)
            => (treeCall'.err = "Maximum depth reached" /\ tree' = tree)
       /\ (treeCall'.op = "createNode" /\ p \in TreeNodeIds
             /\ tree.nodes[p].depth < tree.config.maxDepth
             /\ Len(tree.nodes[p].childrenIds) >= tree.config.maxBranchingFactor)
            => (treeCall'.err = "Maximum branching factor reached" /\ tree' = tree)
       /\ (treeCall'.op = "expand" /\ p \in TreeNodeIds
             /\ tree.nodes[p].status = "active"
             /\ tree.nodes[p].depth = tree.config.maxDepth)
            => (treeCall'.err = "Maximum depth reached" /\ tree' = tree)
       /\ (treeCall'.op \in {"createNode", "expand"} /\ treeCall'.err # "none")
            => tree' = tree
      ]_vars

\* expand was refused on an active node at maxDepth
Wit_C5_ExpandRefusedAtMaxDepth ==
    /\ treeCall.op = "expand"
    /\ treeCall.err = "Maximum depth reached"
    /\ tree.nodes[treeCall.nodeId].status = "active"
    /\ tree.nodes[treeCall.nodeId].depth = tree.config.maxDepth

\* the texts of a record sequence as node contents
ThoughtTexts(thoughts) == [i \in 1..Len(thoughts) |-> <<thoughts[i]>>]

\* C15: for every record sequence, the export of the session its import
\* built, with no call in between, has exactly the sequence's texts, in the
\* same order and the same number.
Cex_C15_TreeRoundTrip ==
    treeCall.op = "import" =>
        \A thoughts \in ThoughtSeqs :
            Tree_importFromSequentialFormat(thoughts).s = tree =>
                Tree_exportToSequentialFormat(tree).ret = ThoughtTexts(thoughts)

\* the number of children expand creates for nodeId
TreeExpandCount(nodeId, s) ==
    Max(0, Min(3, s.config.maxBranchingFactor - Len(s.nodes[nodeId].childrenIds)))

\* C19: expand(n) on an active node n below maxDepth creates exactly
\* min(3, maxBranchingFactor - child count of n) new children, each active
\* and at depth(n) + 1, and sets n's status to explored; expand on a node
\* that is not active returns no children and changes nothing.
Thm_C19_ExpandCreatesTheChildren ==
    [][ (treeCall'.op = "expand" /\ treeCall'.nodeId \in DOMAIN tree.nodes) =>
            IF tree.nodes[treeCall'.nodeId].status # "active"
            THEN /\ tree' = tree
                 /\ treeCall'.err = "none"
                 /\ Tree_expand(treeCall'.nodeId, tree).ret = <<>>
            ELSE IF tree.nodes[treeCall'.nodeId].depth >= tree.config.maxDepth
            THEN TRUE
            ELSE /\ treeCall'.err = "none"
                 /\ Len(tree'.nodes) = Len(tree.nodes) + TreeExpandCount(treeCall'.nodeId, tree)
                 /\ Len(Tree_expand(treeCall'.nodeId, tree).ret) = TreeExpandCount(treeCall'.nodeId, tree)
                 /\ \A id \in DOMAIN tree.nodes :
                       id # treeCall'.nodeId => tree'.nodes[id] = tree.nodes[id]
                 /\ \A id \in (DOMAIN tree'.nodes) \ (DOMAIN tree.nodes) :
                       /\ tree'.nodes[id].parentId = treeCall'.nodeId
                       /\ tree'.nodes[id].status = "active"
                       /\ tree'.nodes[id].depth = tree.nodes[treeCall'.nodeId].depth + 1
                       /\ id \in Range(tree'.nodes[treeCall'.nodeId].childrenIds)
                 /\ tree'.nodes[treeCall'.nodeId].status = "explored" ]_vars

\* expand created three children where four were allowed
Wit_C19_ExpandedThreeOfFour ==
    /\ treeCall.op = "expand"
    /\ treeCall.err = "none"
    /\ tree.config.maxBranchingFactor = 4
    /\ tree.nodes[treeCall.nodeId].status = "explored"
    /\ Len(tree.nodes[treeCall.nodeId].childrenIds) = 3

\* C20: from any initialized session, repeatedly calling runIteration
\* eventually sets nextStepNeeded to false, for every selection strategy and
\* every outcome of the node scores.
Cex_C20_IterationsEventuallyStop == <>(~tree.nextStepNeeded)

\* a second call in a row was refused at the depth limit and the session
\* still asks for more work
Wit_C20_RefusedAgainAtMaximumDepth ==
    /\ treeCall.op = "runIteration"
    /\ treeCall.err = "Maximum depth reached"
    /\ treeCall.seq >= 4
    /\ tree.nextStepNeeded
    /\ tree.stats.nodesExplored < tree.explorationBudget

\* C21: exportToSequentialFormat, called at any point in a session,
\* serializes exactly the node sequence getBestPath returns for the state at
\* the time of the call, numbered from 1, with totalThoughts the path length
\* and nextThoughtNeeded true except on the last record.
Cex_C21_ExportIsCurrentBestPath ==
    Tree_exportRecords(Tree_exportedPath(tree), tree)
        = Tree_exportRecords(Tree_getBestPath(tree).ret, tree)

\* an export was served from a kept path that is no longer the best one
Wit_C21_ExportedStalePath ==
    /\ treeCall.op = "export"
    /\ tree.bestPathIds # <<>>
    /\ tree.bestPathIds # Tree_getBestPath(tree).ret

\* C25: createNode (its parentId), expand, evaluate, prune and isSolution,
\* called with a node id that is absent from the session, surface a
\* not-found error to the caller and leave the session unchanged.
Cex_C25_AbsentIdIsNotFound ==
    [][(/\ treeCall'.op \in {"createNode", "expand", "evaluate", "prune", "isSolution"}
        /\ treeCall'.nodeId \notin DOMAIN tree.nodes)
          => (/\ treeCall'.err \in {"Parent node not found", "Node not found"}
              /\ tree' = tree)]_vars

\* prune or isSolution was called with an absent id and returned normally
Wit_C25_AbsentIdAccepted ==
    /\ treeCall.op \in {"prune", "isSolution"}
    /\ treeCall.nodeId \notin DOMAIN tree.nodes
    /\ treeCall.err = "none"

\* the active nodes of session s
TreeActive(s) == {n \in DOMAIN s.nodes : s.nodes[n].status = "active"}

\* what selectNext must return on session s: r is the call's outcome, r.ret
\* the id returned (0: null), r.s the session afterwards
TreeSelectOutcome(s, r) ==
    IF TreeActive(s) = {} THEN r.ret = 0
    ELSE
        /\ r.ret \in TreeActive(s)
        /\ s.config.defaultStrategy = "depth-first" =>
              \A o \in TreeActive(s) :
                  \/ s.nodes[o].depth < s.nodes[r.ret].depth
                  \/ (s.nodes[o].depth = s.nodes[r.ret].depth /\ o >= r.ret)
        /\ s.config.defaultStrategy = "breadth-first" =>
              \A o \in TreeActive(s) :
                  \/ s.nodes[o].depth > s.nodes[r.ret].depth
                  \/ (s.nodes[o].depth = s.nodes[r.ret].depth /\ o >= r.ret)
        /\ s.config.defaultStrategy = "best-first" =>
              /\ \A o \in TreeActive(s) :
                    /\ r.s.nodes[o].score # NoScore
                    /\ s.nodes[o].score # NoScore => r.s.nodes[o].score = s.nodes[o].score
              /\ \A o \in TreeActive(s) :
                    \/ r.s.nodes[o].score < r.s.nodes[r.ret].score
                    \/ (r.s.nodes[o].score = r.s.nodes[r.ret].score /\ o >= r.ret)

\* C27: selectNext considers only nodes with status active and returns null
\* when there is none; under depth-first it returns an active node of maximum
\* depth, under breadth-first one of minimum depth, under best-first one of
\* maximum score after scoring every unscored active node; among tied
\* candidates it returns the one created first.  On every session and for
\* every outcome of the scores drawn.
Thm_C27_SelectNextFollowsStrategy ==
    \A random \in [TreeSelectDraws(tree) -> RandomFactors] :
        TreeSelectOutcome(tree, Tree_selectNext(tree, random))

\* runIteration's selectNext chose between two active nodes of the same
\* depth, below an active root, and took the one created first
Wit_C27_SelectedFirstOfTied ==
    /\ treeCall.op = "runIteration"
    /\ treeCall.err = "Maximum depth reached"
    /\ treeCall.nodeId \in DOMAIN tree.nodes
    /\ tree.config.defaultStrategy = "depth-first"
    /\ tree.nodes[1].status = "active"
    /\ \E o \in TreeActive(tree) :
          /\ o > treeCall.nodeId
          /\ tree.nodes[o].depth = tree.nodes[treeCall.nodeId].depth

\* the childless nodes that are not pruned
TreeLiveLeaves ==
    {n \in TreeNodeIds : tree.nodes[n].childrenIds = <<>> /\ tree.nodes[n].status # "pruned"}

\* the sum of the scores from the root down to node n, an unscored node
\* counting 0
TreeScoreSum(n) ==
    SumSeq([k \in 1..Len(SortedIds(TreeAncestors(n) \cup {n})) |->
               IF tree.nodes[SortedIds(TreeAncestors(n) \cup {n})[k]].score = NoScore THEN 0
               ELSE tree.nodes[SortedIds(TreeAncestors(n) \cup {n})[k]].score])

\* path is the list of ids from the root down to its last node
TreeIsRootPath(path) ==
    /\ path # <<>>
    /\ path[1] = tree.rootNodeId
    /\ \A i \in 1..(Len(path) - 1) : tree.nodes[path[i + 1]].parentId = path[i]

\* C28: getBestPath returns the ordered ids from the root to a childless node
\* whose status is not pruned and whose root-to-leaf score sum (unscored
\* nodes counting 0) is maximal among all such leaves, and returns the empty
\* list when every childless node is pruned.
Thm_C28_BestPathIsMaximalLiveLeaf ==
    IF TreeLiveLeaves = {} THEN Tree_getBestPath(tree).ret = <<>>
    ELSE /\ TreeIsRootPath(Tree_getBestPath(tree).ret)
         /\ Tree_getBestPath(tree).ret[Len(Tree_getBestPath(tree).ret)] \in TreeLiveLeaves
         /\ \A l \in TreeLiveLeaves :
               TreeScoreSum(l) <= TreeScoreSum(Tree_getBestPath(tree).ret[Len(Tree_getBestPath(tree).ret)])

\* getBestPath returned a path of three nodes that ends in an unscored leaf,
\* over a leaf created earlier whose sum is lower
Wit_C28_DeeperLeafWins ==
    /\ treeCall.op = "getBestPath"
    /\ Len(tree.bestPathIds) = 3
    /\ tree.bestPathIds = Tree_getBestPath(tree).ret
    /\ tree.nodes[tree.bestPathIds[3]].score = NoScore
    /\ \E l \in TreeLiveLeaves :
          /\ l < tree.bestPathIds[3]
          /\ TreeScoreSum(l) < TreeScoreSum(tree.bestPathIds[3])

\* C29: when runIteration returns, every child it created in that iteration
\* whose score is below the configured pruningThreshold has status pruned,
\* for every pruningThreshold in (0, 1].
Cex_C29_LowScoredChildrenArePruned ==
    [][(treeCall'.op = "runIteration" /\ treeCall'.err = "none")
          => \A c \in (Len(tree.nodes) + 1)..Len(tree'.nodes) :
                tree'.nodes[c].score < tree'.config.pruningThreshold
                   => tree'.nodes[c].status = "pruned"]_vars

\* runIteration returned and a child of the node it expanded is a solution
\* with a score below the pruning threshold
Wit_C29_SolutionBelowThreshold ==
    /\ treeCall.op = "runIteration"
    /\ treeCall.err = "none"
    /\ treeCall.nodeId \in DOMAIN tree.nodes
    /\ \E i \in 1..Len(tree.nodes[treeCall.nodeId].childrenIds) :
          LET c == tree.nodes[treeCall.nodeId].childrenIds[i]
          IN  /\ tree.nodes[c].status = "solution"
              /\ tree.nodes[c].score # NoScore
              /\ tree.nodes[c].score < tree.config.pruningThreshold
              /\ tree.stats.nodesPruned >= 1

(***************************************************************************)
(* Graph engine: properties                                                *)
(***************************************************************************)
InList(x, list) == \E i \in 1..Len(list) : list[i] = x

\* the nodes a directed path of edges of the edge table leads to from the
\* nodes of frontier, the nodes of frontier included
RECURSIVE GraphReachFrom(_, _)
GraphReachFrom(frontier, seen) ==
    IF frontier \subseteq seen THEN seen
    ELSE GraphReachFrom(
            {graph.edges[e].targetId : e \in {x \in DOMAIN graph.edges : graph.edges[x].sourceId \in frontier}},
            seen \cup frontier)

\* a directed path (of length >= 0) leads from a to b
GraphPath(a, b) == b \in GraphReachFrom({a}, {})

GraphFull == graph.config.maxEdges # 0 /\ Cardinality(DOMAIN graph.edges) >= graph.config.maxEdges

\* C6: every edge id in a node's incoming/outgoing list is a key of the edge
\* table, and every edge of the edge table is in the outgoing list of its
\* source node and the incoming list of its target node, both of them nodes
\* of the node table, after any sequence of addNode, connectNodes and
\* mergeNodes calls, failed ones included.
Thm_C6_EdgeListsMatchEdgeTable ==
    /\ \A n \in DOMAIN graph.nodes :
         /\ \A i \in 1..Len(graph.nodes[n].incomingEdges) :
              graph.nodes[n].incomingEdges[i] \in DOMAIN graph.edges
         /\ \A i \in 1..Len(graph.nodes[n].outgoingEdges) :
              graph.nodes[n].outgoingEdges[i] \in DOMAIN graph.edges
    /\ \A e \in DOMAIN graph.edges :
         /\ graph.edges[e].sourceId \in DOMAIN graph.nodes
         /\ graph.edges[e].targetId \in DOMAIN graph.nodes
         /\ InList(e, graph.nodes[graph.edges[e].sourceId].outgoingEdges)
         /\ InList(e, graph.nodes[graph.edges[e].targetId].incomingEdges)

\* a mergeNodes call threw half way, after it had redirected or removed edges
Wit_C6_MergeFailedHalfWay ==
    /\ graphCall.op = "mergeNodes"
    /\ graphCall.err = "Maximum edges limit reached"
    /\ DOMAIN graph.edges # {}

\* C7 as stated: with allowCycles false and a path from the target to the
\* source, connectNodes fails with the cycle error and leaves the tables as
\* they were (the handler checks the edge capacity first, so on a full edge
\* table the error is the capacity error).
Cex_C7_CycleErrorWheneverPathExists ==
    [][\A sourceId \in DOMAIN graph.nodes, targetId \in DOMAIN graph.nodes, e \in GraphEdgeInputs :
          (~graph.config.allowCycles /\ graphCall'.op = "connectNodes"
             /\ GraphPath(targetId, sourceId) /\ GraphConnectCall(sourceId, targetId, e))
            => /\ graphCall'.err = "Edge would create a cycle, which is not allowed"
               /\ graph'.nodes = graph.nodes /\ graph'.edges = graph.edges
               /\ graph'.stats = graph.stats
      ]_vars

\* C7 amended: with allowCycles false and a path from the target to the
\* source, connectNodes fails and leaves the node table, the edge table and
\* their counts as they were; the error is the cycle error when the edge
\* table holds fewer than maxEdges edges, and the capacity error otherwise.
Thm_C7_CycleRejectedUnlessFull ==
    [][\A sourceId \in DOMAIN graph.nodes, targetId \in DOMAIN graph.nodes, e \in GraphEdgeInputs :
          (~graph.config.allowCycles /\ graphCall'.op = "connectNodes"
             /\ GraphPath(targetId, sourceId) /\ GraphConnectCall(sourceId, targetId, e))
            => /\ graphCall'.err = IF GraphFull THEN "Maximum edges limit reached"
                                   ELSE "Edge would create a cycle, which is not allowed"
               /\ graph'.nodes = graph.nodes /\ graph'.edges = graph.edges
               /\ graph'.stats = graph.stats
      ]_vars

\* connectNodes was refused for a cycle in a graph that has an edge
Wit_C7_CycleRefused ==
    /\ graphCall.op = "connectNodes"
    /\ graphCall.err = "Edge would create a cycle, which is not allowed"
    /\ DOMAIN graph.edges # {}

Cex_C9_FailedCallsChangeNothing ==
    [][(graphCall'.op \in {"addNode", "connectNodes", "mergeNodes"} /\ graphCall'.err # "none")
          => (graph'.nodes = graph.nodes /\ graph'.edges = graph.edges)]_vars

\* the position of node id in the exported order, 0 when it is not there
GraphExportPositions(id) ==
    {i \in 1..Len(Graph_sortedNodes(graph)) : Graph_sortedNodes(graph)[i] = id}

\* no edge of the edge table lies on a directed cycle
GraphAcyclic ==
    \A e \in DOMAIN graph.edges : ~GraphPath(graph.edges[e].targetId, graph.edges[e].sourceId)

\* C22: exportToSequentialFormat emits every node of the session exactly
\* once, and when the graph is acyclic the record of an edge's source comes
\* before the record of its target.
Thm_C22_ExportIsTopological ==
    /\ Len(Graph_sortedNodes(graph)) = Cardinality(DOMAIN graph.nodes)
    /\ \A id \in DOMAIN graph.nodes : Cardinality(GraphExportPositions(id)) = 1
    /\ GraphAcyclic =>
          \A e \in DOMAIN graph.edges :
              \A i \in GraphExportPositions(graph.edges[e].sourceId) :
                  \A j \in GraphExportPositions(graph.edges[e].targetId) : i < j

\* an acyclic graph with a chain of two edges that runs against the insertion
\* order, its last node an entry node: the export reverses the insertion order
Wit_C22_ExportedAgainstInsertionOrder ==
    /\ GraphAcyclic
    /\ \E e1 \in DOMAIN graph.edges, e2 \in DOMAIN graph.edges :
          /\ graph.edges[e1].targetId = graph.edges[e2].sourceId
          /\ graph.edges[e1].sourceId > graph.edges[e1].targetId
          /\ graph.edges[e2].sourceId > graph.edges[e2].targetId
          /\ InList(graph.edges[e2].targetId, graph.entryNodeIds)
          /\ GraphExportPositions(graph.edges[e1].sourceId) = {1}
          /\ GraphExportPositions(graph.edges[e2].targetId) = {3}

\* what a successful mergeNodes(nodeIds) on session s must have made of it:
\* r is the call's outcome, r.ret the merged node's id
GraphMergeOutcome(nodeIds, s, r) ==
    r.err = "none" =>
        /\ Range(nodeIds) \cap DOMAIN r.s.nodes = {}
        /\ r.ret \in DOMAIN r.s.nodes
        /\ \A e \in DOMAIN r.s.edges :
              /\ r.s.edges[e].sourceId \notin Range(nodeIds)
              /\ r.s.edges[e].targetId \notin Range(nodeIds)
        /\ \A e \in DOMAIN s.edges :
              /\ (s.edges[e].targetId \in Range(nodeIds) /\ s.edges[e].sourceId \notin Range(nodeIds))
                    => \E f \in DOMAIN r.s.edges :
                          r.s.edges[f] = [s.edges[e] EXCEPT !.targetId = r.ret]
              /\ (s.edges[e].sourceId \in Range(nodeIds) /\ s.edges[e].targetId \notin Range(nodeIds))
                    => \E f \in DOMAIN r.s.edges :
                          r.s.edges[f] = [s.edges[e] EXCEPT !.sourceId = r.ret]
        /\ Cardinality(DOMAIN r.s.nodes)
              = Cardinality(DOMAIN s.nodes) - (Cardinality(Range(nodeIds)) - 1)
        /\ r.s.stats.totalNodes = s.stats.totalNodes - (Cardinality(Range(nodeIds)) - 1)

\* C23: after a successful mergeNodes(ids) none of the input ids is in the
\* node table, no edge has an input node as an endpoint, every edge that
\* joined an input node to a non-input node X has an edge of the same type,
\* weight and direction between the merged node and X, and the node count
\* has dropped by (number of distinct ids - 1); on every session a caller can
\* call it on.
Thm_C23_MergeRedirectsAndRemoves ==
    \A nodeIds \in GraphIdSeqs(graph) :
        GraphMergeOutcome(nodeIds, graph, Graph_mergeNodes(nodeIds, graph))

\* a mergeNodes call succeeded and the merged node has an edge to a node and
\* an edge from a node outside the merge
Wit_C23_MergedWithBothDirections ==
    /\ graphCall.op = "mergeNodes"
    /\ graphCall.err = "none"
    /\ \E e \in DOMAIN graph.edges, f \in DOMAIN graph.edges :
          /\ graph.edges[e].sourceId = graph.lastNodeId
          /\ graph.edges[e].targetId # graph.lastNodeId
          /\ graph.edges[f].targetId = graph.lastNodeId
          /\ graph.edges[f].sourceId # graph.lastNodeId

\* the nodes joined to the nodes of frontier by edges taken in either
\* direction
RECURSIVE GraphComponent(_, _)
GraphComponent(frontier, seen) ==
    IF frontier \subseteq seen THEN seen
    ELSE GraphComponent(
            {graph.edges[e].targetId : e \in {x \in DOMAIN graph.edges : graph.edges[x].sourceId \in frontier}}
              \cup {graph.edges[e].sourceId : e \in {x \in DOMAIN graph.edges : graph.edges[x].targetId \in frontier}},
            seen \cup frontier)

GraphConnected ==
    \A a \in DOMAIN graph.nodes : GraphComponent({a}, {}) = DOMAIN graph.nodes

GraphNoDangling ==
    \A a \in DOMAIN graph.nodes : Len(graph.nodes[a].outgoingEdges) >= 1

\* the sum of the centrality values kept in the session, in millionths
GraphCentralitySum ==
    SumSeq([k \in 1..Len(SortedIds(DOMAIN graph.nodes)) |->
               graph.analysisMetrics.centrality[SortedIds(DOMAIN graph.nodes)[k]]])

\* the rounding allowed on the sum: a thousandth
CentralityTolerance == 1000

\* C26: calculateCentrality returns a non-negative value for every node, and
\* for a connected graph in which every node has at least one outgoing edge
\* the values sum to 1 (up to rounding), for any edge weights in [0,1].
Cex_C26_CentralitySumsToOne ==
    graphCall.op = "calculateCentrality" =>
        /\ \A a \in DOMAIN graph.nodes : graph.analysisMetrics.centrality[a] >= 0
        /\ (DOMAIN graph.nodes # {} /\ GraphConnected /\ GraphNoDangling) =>
              /\ GraphCentralitySum >= RankScale - CentralityTolerance
              /\ GraphCentralitySum <= RankScale + CentralityTolerance

\* centrality was computed on a connected graph without dangling nodes and
\* with an edge of weight 0.5, and the values sum to less than 0.9
Wit_C26_WeightedSumBelowOne ==
    /\ graphCall.op = "calculateCentrality"
    /\ GraphConnected
    /\ GraphNoDangling
    /\ \E e \in DOMAIN graph.edges : graph.edges[e].weight = 500
    /\ GraphCentralitySum < 900000

\* the number of edges of a cycle that findCycles reports as the array
\* [n1, ..., nk, n1]
CycleEdges(entry) == Len(entry.nodeIds) - 1

\* C32: findContradictions returns one entry for every edge of type
\* contradicts, and circular-reasoning entries only for directed cycles of
\* more than two edges: a two-node cycle A -> B -> A and a self-loop are not
\* reported as circular reasoning
Cex_C32_OnlyCyclesLongerThanTwo ==
    graphCall.op = "findContradictions" =>
        /\ Cardinality({i \in 1..Len(graphCall.ret) : graphCall.ret[i].description = "contradicts"})
              = Cardinality({e \in DOMAIN graph.edges : graph.edges[e].edgeType = "contradicts"})
        /\ \A i \in 1..Len(graphCall.ret) :
              graphCall.ret[i].description = "circular reasoning" =>
                  CycleEdges(graphCall.ret[i]) > 2

\* findContradictions has reported the two-node cycle 1 -> 2 -> 1
Wit_C32_TwoNodeCycleReported ==
    /\ graphCall.op = "findContradictions"
    /\ \E i \in 1..Len(graphCall.ret) :
          /\ graphCall.ret[i].description = "circular reasoning"
          /\ graphCall.ret[i].nodeIds = <<1, 2, 1>>

\* the routes of the session from startId to endId: the lists of up to
\* MaxAnalysisEdges edges that lead from startId to endId, each edge
\* starting where the one before ends, through nodes that are all different
GraphRouteNodes(route, startId) ==
    <<startId>> \o [k \in 1..Len(route) |-> graph.edges[route[k]].targetId]

GraphRoutes(startId, endId) ==
    { route \in UNION {[1..n -> DOMAIN graph.edges] : n \in 0..MaxAnalysisEdges} :
        LET nodes == GraphRouteNodes(route, startId)
        IN  /\ nodes[Len(nodes)] = endId
            /\ \A k \in 1..Len(route) : graph.edges[route[k]].sourceId = nodes[k]
            /\ \A i, j \in 1..Len(nodes) : i # j => nodes[i] # nodes[j] }

\* what a findPaths call owes its caller
GraphPathsOutcome(call) ==
    LET routes == GraphRoutes(call.startId, call.endId)
    IN  /\ Len(call.ret) <= call.maxPaths
        /\ \A i \in 1..Len(call.ret) :
              LET path == call.ret[i]
              IN  /\ path[1] = call.startId
                  /\ path[Len(path)] = call.endId
                  /\ \A k \in 1..(Len(path) - 1) :
                        \E e \in DOMAIN graph.edges :
                            graph.edges[e].sourceId = path[k] /\ graph.edges[e].targetId = path[k + 1]
                  /\ \A j, k \in 1..Len(path) : j # k => path[j] # path[k]
        /\ Cardinality(routes) < call.maxPaths =>
              /\ Len(call.ret) = Cardinality(routes)
              /\ \A route \in routes :
                    Cardinality({i \in 1..Len(call.ret) :
                                    call.ret[i] = GraphRouteNodes(route, call.startId)})
                      = Cardinality({other \in routes :
                                        GraphRouteNodes(other, call.startId)
                                          = GraphRouteNodes(route, call.startId)})

Cex_C17_GraphRoundTrip ==
    graphCall.op = "importFromSequentialFormat" =>
        \A thoughts \in ThoughtSeqs :
            Graph_importFromSequentialFormat(thoughts).s = graph =>
                Graph_exportToSequentialFormat(graph) = ThoughtTexts(thoughts)

(***************************************************************************)
(* Beam engine: properties                                                 *)
(***************************************************************************)
\* C10: immediately after a prunePaths call, on any reachable session, the
\* length of session.activePaths is at most beamWidth.
Thm_C10_PrunedToBeamWidth ==
    Len(Beam_prunePaths(beam).s.activePaths) <= beam.beamWidth

\* a prunePaths call has cut a generation down to the beam width
Wit_C10_PrunedAGeneration ==
    /\ beamCall.op = "prunePaths"
    /\ beam.stats.prunedPaths >= 2
    /\ Len(beam.activePaths) = beam.beamWidth

\* the node ids the paths of pathIds that are longer than i have at 0-based
\* position i, in the order of pathIds
BeamColumn(pathIds, i) ==
    LET long == SelectSeq(pathIds, LAMBDA id : Len(beam.paths[id].nodeIds) > i)
    IN  [k \in 1..Len(long) |-> beam.paths[long[k]].nodeIds[i + 1]]

Occurrences(x, list) == Cardinality({k \in 1..Len(list) : list[k] = x})

FirstIndex(x, list) == CHOOSE k \in 1..Len(list) : list[k] = x /\ \A j \in 1..(k - 1) : list[j] # x

\* x is the most frequent id of list, the first of them when several are
MostFrequentFirst(x, list) ==
    /\ InList(x, list)
    /\ \A k \in 1..Len(list) :
          \/ Occurrences(list[k], list) < Occurrences(x, list)
          \/ Occurrences(list[k], list) = Occurrences(x, list)
                /\ FirstIndex(x, list) <= FirstIndex(list[k], list)

\* what C11 says of the call mergePaths(pathIds) on the session beam, r
\* being what the call gives
MergeOutcome(pathIds, r) ==
    IF Len(pathIds) < 2 \/ \E k \in 1..Len(pathIds) : pathIds[k] \notin DOMAIN beam.paths
    THEN r.err # "none" /\ r.s = beam
    ELSE
        LET merged == beam.lastPathId + 1
        IN  /\ r.err = "none"
            /\ DOMAIN r.s.paths = (DOMAIN beam.paths) \cup {merged}
            /\ merged \notin DOMAIN beam.paths
            /\ r.s.paths[merged].status = "active"
            /\ InList(merged, r.s.activePaths)
            /\ \A k \in 1..Len(pathIds) :
                  /\ Len(beam.paths[pathIds[k]].nodeIds) <= Len(r.s.paths[merged].nodeIds)
                  /\ r.s.paths[pathIds[k]].status = "merged"
                  /\ ~InList(pathIds[k], r.s.activePaths)
            /\ \A i \in 1..Len(r.s.paths[merged].nodeIds) :
                  /\ BeamColumn(pathIds, i - 1) # <<>>
                  /\ MostFrequentFirst(r.s.paths[merged].nodeIds[i], BeamColumn(pathIds, i - 1))

\* C11: on every session a caller can call it on, mergePaths(ids) with at
\* least 2 ids, all of existing paths, makes exactly one new path, active and
\* listed in activePaths, as long as the longest input, whose node id at each
\* position is the most frequent id the long enough inputs have there, the
\* first in input order on a tie; every input path gets status merged and
\* leaves activePaths.  With fewer than 2 ids or a missing id it throws and
\* the session is unchanged.
Thm_C11_MergeTakesMajorityPerPosition ==
    beamCall.seq < MaxBeamCalls =>
        \A pathIds \in BeamIdSeqs(beam) \cup BeamLongIdSeqs(beam) :
            MergeOutcome(pathIds, Beam_mergePaths(pathIds, beam))

\* a mergePaths call has merged paths that differ in their first node
Wit_C11_MergedDifferingPaths ==
    /\ beamCall.op = "mergePaths"
    /\ beamCall.err = "none"
    /\ \E p \in DOMAIN beam.paths, q \in DOMAIN beam.paths :
          /\ beam.paths[p].mergedIntoPathId = beam.lastPathId
          /\ beam.paths[q].mergedIntoPathId = beam.lastPathId
          /\ beam.paths[p].nodeIds # <<>> /\ beam.paths[q].nodeIds # <<>>
          /\ beam.paths[p].nodeIds[1] # beam.paths[q].nodeIds[1]
          /\ beam.paths[beam.lastPathId].nodeIds[1] = beam.paths[q].nodeIds[1]
          /\ p < q

\* the texts of a record sequence as the contents of imported beam nodes
BeamThoughtTexts(thoughts) ==
    [i \in 1..Len(thoughts) |-> [text |-> thoughts[i], generation |-> 0, branch |-> 0]]

\* C16: for every record sequence, the export of the session its import
\* built, with no call in between, has exactly the sequence's texts in the
\* same order.
Cex_C16_BeamRoundTrip ==
    beamCall.op = "importFromSequentialFormat" =>
        \A thoughts \in ThoughtSeqs :
            Beam_importFromSequentialFormat(thoughts).s = beam =>
                Beam_exportToSequentialFormat(beam) = BeamThoughtTexts(thoughts)

\* C24: in every state reachable from initializeSession by
\* generateNextGeneration, evaluatePaths, prunePaths, mergePaths and
\* runIteration, every path with status active has exactly currentGeneration
\* node ids.
Cex_C24_ActivePathLengthIsGeneration ==
    \A p \in DOMAIN beam.paths :
        beam.paths[p].status = "active" => Len(beam.paths[p].nodeIds) = beam.currentGeneration

\* a successful mergePaths call left an active path shorter than the
\* generation count
Wit_C24_MergedPathOfAnEarlierGeneration ==
    /\ beamCall.op = "mergePaths"
    /\ beamCall.err = "none"
    /\ \E p \in DOMAIN beam.paths :
          /\ beam.paths[p].status = "active"
          /\ Len(beam.paths[p].nodeIds) < beam.currentGeneration

\* the paths of session s that generateNextGeneration expands
BeamExpanded(s) ==
    {p \in DOMAIN s.paths : InList(p, s.activePaths) /\ s.paths[p].status = "active"}

\* the paths of session t, new since session s, that are active and consist
\* of path p's node list followed by one node new since s
BeamChildren(p, s, t) ==
    {q \in (DOMAIN t.paths) \ (DOMAIN s.paths) :
        /\ t.paths[q].status = "active"
        /\ Len(t.paths[q].nodeIds) = Len(s.paths[p].nodeIds) + 1
        /\ SubSeq(t.paths[q].nodeIds, 1, Len(s.paths[p].nodeIds)) = s.paths[p].nodeIds
        /\ t.paths[q].nodeIds[Len(t.paths[q].nodeIds)] \in (Len(s.nodes) + 1)..Len(t.nodes)}

\* what generateNextGeneration must make of session s: t is the session
\* afterwards.  Expanded paths with the same node list share their children.
BeamGenerationOutcome(s, t) ==
    /\ t.currentGeneration = s.currentGeneration + 1
    /\ DOMAIN s.paths \subseteq DOMAIN t.paths
    /\ \A p \in BeamExpanded(s) :
          /\ t.paths[p].status = "completed"
          /\ Cardinality(BeamChildren(p, s, t))
                = s.config.branchingFactor
                    * Cardinality({o \in BeamExpanded(s) : s.paths[o].nodeIds = s.paths[p].nodeIds})
    /\ \A q \in (DOMAIN t.paths) \ (DOMAIN s.paths) :
          /\ \E p \in BeamExpanded(s) : q \in BeamChildren(p, s, t)
          /\ \A o \in (DOMAIN t.paths) \ (DOMAIN s.paths) :
                o # q => t.paths[o].nodeIds[Len(t.paths[o].nodeIds)]
                            # t.paths[q].nodeIds[Len(t.paths[q].nodeIds)]
    /\ Len(t.nodes) - Len(s.nodes) = Cardinality((DOMAIN t.paths) \ (DOMAIN s.paths))
    /\ \A p \in (DOMAIN s.paths) \ BeamExpanded(s) : t.paths[p] = s.paths[p]

\* C30: generateNextGeneration increments currentGeneration by 1 and, for
\* every path in activePaths whose status is active, creates exactly
\* branchingFactor new active paths, each that path's node list followed by
\* one newly created node, and sets the expanded path's status to completed;
\* paths that are not active are not expanded.
Thm_C30_GenerationExpandsActivePaths ==
    [][beamCall'.op = "generateNextGeneration" => BeamGenerationOutcome(beam, beam')]_vars

\* a second generation was made with branching factor 2: four active paths of
\* two nodes, the completed initial path still listed in activePaths
Wit_C30_SecondGenerationOfFour ==
    /\ beamCall.op = "generateNextGeneration"
    /\ beam.currentGeneration = 2
    /\ beam.config.branchingFactor = 2
    /\ InList(1, beam.activePaths)
    /\ beam.paths[1].status = "completed"
    /\ Cardinality({q \in DOMAIN beam.paths :
                       beam.paths[q].status = "active" /\ Len(beam.paths[q].nodeIds) = 2}) = 4

\* C31: a chain of runIteration calls on a freshly initialized session whose
\* convergence criteria hold maxGenerations = G > 0 has set nextStepNeeded to
\* false once G calls have been made, whatever the node scores were
Thm_C31_IterationChainStopsAtMaxGenerations ==
    /\ beam.currentGeneration = beam.iteration
    /\ beam.iteration <= beam.convergenceCriteria.maxGenerations
    /\ beam.iteration >= beam.convergenceCriteria.maxGenerations => ~beam.nextStepNeeded

\* the third call of a chain stopped by the generation count alone: the other
\* criteria are switched off, so the first two calls left nextStepNeeded true
Wit_C31_StoppedByGenerationCount ==
    /\ beamCall.op = "runIteration"
    /\ beam.convergenceCriteria.maxGenerations = 3
    /\ beam.convergenceCriteria.targetScore = 0
    /\ beam.iteration = 3
    /\ Len(beam.activePaths) = 2
    /\ ~beam.nextStepNeeded

\* C37: in every reachable state session.activePaths lists exactly the
\* paths whose status is active: every id in activePaths refers to an
\* existing path with status active, and every path with status active is
\* listed in activePaths
Cex_C37_ActivePathsAreTheActivePaths ==
    /\ \A i \in 1..Len(beam.activePaths) :
          /\ beam.activePaths[i] \in DOMAIN beam.paths
          /\ beam.paths[beam.activePaths[i]].status = "active"
    /\ \A id \in DOMAIN beam.paths :
          beam.paths[id].status = "active" => id \in Range(beam.activePaths)

\* after the first generateNextGeneration the expanded initial path is
\* completed and still listed in activePaths
Wit_C37_CompletedPathStillListed ==
    /\ beamCall.op = "generateNextGeneration"
    /\ beamCall.seq = 1
    /\ beam.paths[1].status = "completed"
    /\ beam.activePaths[1] = 1

\* the statuses the claim calls final
BeamFinal == {"completed", "pruned", "merged"}

\* C38: completed, pruned and merged are final path statuses: once a path's
\* status is one of them, no later generateNextGeneration, evaluatePaths,
\* prunePaths, mergePaths or runIteration changes that path's status
Cex_C38_FinalStatusesStay ==
    [][\A id \in (DOMAIN beam.paths) \cap (DOMAIN beam'.paths) :
          beam.paths[id].status \in BeamFinal => beam'.paths[id].status = beam.paths[id].status]_vars

\* generateNextGeneration has completed the initial path and the prunePaths
\* call after it has turned it into a pruned path
Wit_C38_CompletedPathPruned ==
    /\ beamCall.op = "prunePaths"
    /\ beamCall.seq = 2
    /\ 1 \in DOMAIN beam.paths
    /\ beam.paths[1].status = "pruned"

(***************************************************************************)
(* MCTS engine: properties                                                 *)
(***************************************************************************)
\* the ids on the parentId chain from nodeId up to the root, nodeId included
RECURSIVE MctsPathToRoot(_, _)
MctsPathToRoot(nodeId, s) ==
    IF nodeId = 0 \/ nodeId \notin DOMAIN s.nodes THEN {}
    ELSE {nodeId} \cup MctsPathToRoot(s.nodes[nodeId].parentId, s)

\* C12: backpropagate(leaf, v) adds exactly 1 to visits and exactly v to
\* totalValue on the leaf and on every ancestor up to and including the
\* root, sets averageValue to totalValue / visits (rounded down to the
\* thousandth) on each of them, and leaves every node off that path as it was.
Thm_C12_BackpropagateUpdatesExactlyThePath ==
    [][ (mctsCall'.op = "backpropagate" /\ mctsCall'.nodeId \in DOMAIN mcts.nodes) =>
            /\ DOMAIN mcts'.nodes = DOMAIN mcts.nodes
            /\ mcts.rootNodeId \in MctsPathToRoot(mctsCall'.nodeId, mcts)
            /\ \A id \in DOMAIN mcts.nodes :
                  IF id \in MctsPathToRoot(mctsCall'.nodeId, mcts)
                  THEN /\ mcts'.nodes[id].visits = mcts.nodes[id].visits + 1
                       /\ mcts'.nodes[id].totalValue = mcts.nodes[id].totalValue + mctsCall'.value
                       /\ mcts'.nodes[id].averageValue =
                              mcts'.nodes[id].totalValue \div mcts'.nodes[id].visits
                  ELSE mcts'.nodes[id] = mcts.nodes[id] ]_vars

\* a rollout value was backpropagated from a node two levels below the root
\* while another node was off its path
Wit_C12_BackpropagatedFromBelowRoot ==
    /\ mctsCall.op = "backpropagate"
    /\ mctsCall.nodeId \in DOMAIN mcts.nodes
    /\ mcts.nodes[mctsCall.nodeId].depth = 2
    /\ mcts.nodes[mcts.rootNodeId].visits = 1
    /\ \E id \in DOMAIN mcts.nodes : mcts.nodes[id].visits = 0

\* the children of nodeId that no rollout has reached
MctsUnvisitedChildren(nodeId, s) ==
    {c \in Range(s.nodes[nodeId].childrenIds) : s.nodes[c].visits = 0}

\* C13: calculateUCB returns +infinity for a node with visits == 0, and
\* every child selectLeaf steps to is an unvisited one whenever its parent
\* has an unvisited child, whatever finite scores the siblings have.
Thm_C13_UnvisitedChildSelectedFirst ==
    /\ [](\A id \in DOMAIN mcts.nodes : \A parentVisits \in 0..2 :
            mcts.nodes[id].visits = 0 => Mcts_calculateUCB(id, parentVisits, mcts).ret = Infinity)
    /\ [][ mctsCall'.op = "selectLeaf" =>
              \A id \in MctsPathToRoot(mctsCall'.ret, mcts) :
                  (/\ mcts.nodes[id].parentId # 0
                   /\ MctsUnvisitedChildren(mcts.nodes[id].parentId, mcts) # {})
                      => mcts.nodes[id].visits = 0 ]_vars

\* selectLeaf stepped to an unvisited child that comes after a visited
\* sibling, whose finite score it stored
Wit_C13_UnvisitedChosenOverVisited ==
    /\ mctsCall.op = "selectLeaf"
    /\ mcts.nodes[mctsCall.ret].visits = 0
    /\ mcts.nodes[mctsCall.ret].parentId # 0
    /\ \E c \in Range(mcts.nodes[mcts.nodes[mctsCall.ret].parentId].childrenIds) :
          /\ c < mctsCall.ret
          /\ mcts.nodes[c].visits > 0
          /\ mcts.nodes[c].ucbScore \notin {NoScore, Infinity, NegInfinity, NaN}

\* the visits of the root's children, added up
MctsRootChildrenVisits(s) ==
    SumSeq([k \in 1..Len(s.nodes[s.rootNodeId].childrenIds) |->
               s.nodes[s.nodes[s.rootNodeId].childrenIds[k]].visits])

\* C14: after n runIteration calls on a freshly initialized session,
\* totalSimulations, iteration, the root's visits and the sum of the visits
\* of the root's children are all n.
Thm_C14_IterationCountsAgree ==
    /\ mcts.totalSimulations = mctsCall.seq
    /\ mcts.iteration = mctsCall.seq
    /\ mcts.nodes[mcts.rootNodeId].visits = mctsCall.seq
    /\ MctsRootChildrenVisits(mcts) = mctsCall.seq

\* seven iterations were run, the last ones selecting below a fully expanded
\* root and reaching a grandchild
Wit_C14_IteratedBelowFullRoot ==
    /\ mctsCall.op = "runIteration"
    /\ mctsCall.seq = MaxMctsRuns
    /\ Len(mcts.nodes[mcts.rootNodeId].childrenIds) = 5
    /\ \E id \in DOMAIN mcts.nodes : mcts.nodes[id].depth = 2 /\ mcts.nodes[id].visits > 0

\* C18: for every record sequence, the export of the session its import
\* built, with no call in between, has exactly the sequence's texts in the
\* same order.
Cex_C18_MctsRoundTrip ==
    mctsCall.op = "import" =>
        Mcts_exportToSequentialFormat(mcts) = ThoughtTexts(mctsCall.thoughts)

\* what expandNode(nodeId) owes its caller: s the session before, t after
MctsExpandOutcome(nodeId, s, t, err) ==
    IF nodeId \in DOMAIN s.nodes /\ Len(s.nodes[nodeId].untriedActions) > 0
    THEN
        LET childId == Len(s.nodes) + 1
            node == s.nodes[nodeId]
        IN  /\ err = "none"
            /\ Len(t.nodes) = childId
            /\ \A id \in (DOMAIN s.nodes) \ {nodeId} : t.nodes[id] = s.nodes[id]
            /\ t.nodes[childId].action \in Range(node.untriedActions)
            /\ Len(t.nodes[nodeId].untriedActions) = Len(node.untriedActions) - 1
            /\ Range(t.nodes[nodeId].untriedActions)
                  = Range(node.untriedActions) \ {t.nodes[childId].action}
            /\ t.nodes[nodeId].childrenIds = Append(node.childrenIds, childId)
            /\ t.nodes[childId].parentId = nodeId
            /\ t.nodes[childId].depth = node.depth + 1
            /\ t.nodes[childId].visits = 0
            /\ t.nodes[childId].totalValue = 0
            /\ t.nodes[childId].childrenIds = <<>>
            /\ Len(t.nodes[nodeId].childrenIds) + Len(t.nodes[nodeId].untriedActions)
                  = Len(node.childrenIds) + Len(node.untriedActions)
            /\ \A i, j \in 1..Len(t.nodes[nodeId].childrenIds) :
                  i # j => t.nodes[t.nodes[nodeId].childrenIds[i]].action
                              # t.nodes[t.nodes[nodeId].childrenIds[j]].action
    ELSE err = "no untried actions" /\ t = s

\* C34: expandNode(n) on a node with an untried action removes exactly one
\* action from n's untried list and adds exactly one child with that action,
\* parent n, depth(n) + 1, zero visits and zero value, so that children plus
\* untried actions of n stays constant and siblings never share an action;
\* on a node without untried actions or an absent node it fails and changes
\* nothing
Thm_C34_ExpandMovesOneActionToAChild ==
    [][mctsCall'.op = "expandNode" /\ mctsCall'.seq # mctsCall.seq
          => MctsExpandOutcome(mctsCall'.nodeId, mcts, mcts', mctsCall'.err)]_vars

\* the root's last untried action has become its fifth child, and a further
\* expandNode on the root has failed
Wit_C34_RootFullyExpandedThenRefused ==
    /\ mctsCall.op = "expandNode"
    /\ mctsCall.nodeId = mcts.rootNodeId
    /\ mctsCall.err = "no untried actions"
    /\ Len(mcts.nodes[mcts.rootNodeId].childrenIds) = 5
    /\ mcts.nodes[5].action = "action5"
    /\ mcts.nodes[6].action = "action4"

\* C35: expandNode marks the new child terminal exactly when its action is
\* 'terminate' or the child's own depth has reached the session's
\* simulationDepth; a child created at a depth below simulationDepth with
\* another action is not terminal
Cex_C35_TerminalAtOwnDepth ==
    [][mctsCall'.op = "expandNode" /\ mctsCall'.seq # mctsCall.seq /\ mctsCall'.err = "none"
          => LET child == mcts'.nodes[mctsCall'.ret]
             IN  child.isTerminal <=>
                    (child.action = "terminate" \/ child.depth >= mcts.simulationDepth)]_vars

\* below a chain that has reached simulationDepth, a child of the root with
\* an action other than 'terminate' has been marked terminal at depth 1
Wit_C35_ShallowChildTerminal ==
    /\ mctsCall.op = "expandNode"
    /\ mctsCall.err = "none"
    /\ mcts.nodes[mctsCall.ret].depth = 1
    /\ mcts.nodes[mctsCall.ret].action # "terminate"
    /\ mcts.nodes[mctsCall.ret].isTerminal

\* the largest share of the visits of the root's children that one child
\* holds, in thousandths; -1 when the root has no visited child
MctsMaxVisitShare(s) ==
    LET childrenIds == s.nodes[s.rootNodeId].childrenIds
        total == SumSeq([k \in 1..Len(childrenIds) |-> s.nodes[childrenIds[k]].visits])
    IN  IF total = 0 THEN -1
        ELSE MaxSeq([k \in 1..Len(childrenIds) |-> (s.nodes[childrenIds[k]].visits * 1000) \div total])

\* one of the four termination criteria holds on s, elapsed milliseconds
\* after its creation
MctsCriterionHolds(s, elapsed) ==
    \/ s.terminationCriteria.maxSimulations > 0
          /\ s.totalSimulations >= s.terminationCriteria.maxSimulations
    \/ s.terminationCriteria.timeLimit > 0 /\ elapsed >= s.terminationCriteria.timeLimit
    \/ s.terminationCriteria.confidenceThreshold > 0
          /\ MctsMaxVisitShare(s) >= s.terminationCriteria.confidenceThreshold
    \/ s.terminationCriteria.minVisitsThreshold > 0
          /\ s.stats.bestActionVisits >= s.terminationCriteria.minVisitsThreshold

\* C39: with the default termination criteria the first runIteration on a
\* freshly initialized session sets nextStepNeeded to false, the single
\* expanded child of the root holding a visit share of 1.0; and
\* nextStepNeeded is set to false only by a runIteration after which one of
\* the four criteria holds
Thm_C39_FirstIterationStopsByConfidence ==
    [][ /\ ( /\ mctsCall'.op = "runIteration"
             /\ mctsCall'.seq # mctsCall.seq
             /\ mcts.iteration = 0
             /\ Len(mcts.nodes) = 1
             /\ mcts.terminationCriteria = Mcts_defaultTerminationCriteria
             => /\ ~mcts'.nextStepNeeded
                /\ Len(mcts'.nodes[mcts'.rootNodeId].childrenIds) = 1
                /\ MctsMaxVisitShare(mcts') = 1000 )
        /\ ( mcts.nextStepNeeded /\ ~mcts'.nextStepNeeded
             => /\ mctsCall'.op = "runIteration"
                /\ MctsCriterionHolds(mcts', mctsCall'.value) ) ]_vars

\* the first runIteration of a session with the default criteria, made with
\* no time elapsed, has stopped the search
Wit_C39_StoppedAfterOneIteration ==
    /\ mctsCall.op = "runIteration"
    /\ mctsCall.seq = 1
    /\ mctsCall.value = 0
    /\ mcts.terminationCriteria = Mcts_defaultTerminationCriteria
    /\ mcts.iteration = 1
    /\ mcts.nodes[2].visits = 1
    /\ ~mcts.nextStepNeeded

(***************************************************************************)
(* Unified reasoning tool: properties                                      *)
(***************************************************************************)
\* the patterns whose handler has a runIteration for the operation iterate
ToolIterating == {"tree", "beam", "mcts"}

\* C36: a call with operation iterate that names the session id of an
\* existing pattern session runs the iteration on that stored session and
\* returns the same session id, so the session's iteration counter grows by
\* one per call, also when the caller's sequential-thought list is non-empty
Cex_C36_IterateRunsOnTheNamedSession ==
    [][ /\ toolCall'.seq # toolCall.seq
        /\ toolCall'.op = "iterate"
        /\ toolCall'.pattern \in ToolIterating
        /\ toolCall'.sessionId \in DOMAIN pools[toolCall'.pattern]
        /\ toolCall'.err = "none"
        => /\ toolCall'.ret = toolCall'.sessionId
           /\ pools'[toolCall'.pattern][toolCall'.sessionId].iteration
                 = pools[toolCall'.pattern][toolCall'.sessionId].iteration + 1 ]_vars

\* an iterate call that named the stored session 1 was answered with the id
\* of a session imported from the caller's thoughts; session 1 was not run
Wit_C36_IterationRanOnAnImportedSession ==
    /\ toolCall.op = "iterate"
    /\ toolCall.pattern = "mcts"
    /\ toolCall.sessionId = 1
    /\ toolCall.err = "none"
    /\ toolCall.ret = 2
    /\ Len(sessionThoughts) > 0
    /\ pools.mcts[1].iteration = 0
    /\ pools.mcts[2].iteration = 1

====
